---- MODULE Spec2Model ----
(***************************************************************************)
(* Model of the resident-verification Telegram bot (src/bot.py).           *)
(*                                                                         *)
(* Texts are sequences of one-character strings.  Python dicts whose keys  *)
(* are fixed words (user_data, chat_data, one application record) are      *)
(* functions whose DOMAIN is the set of keys present.  The JSON stores     *)
(* applications.json and archive.json are ordered lists of <<key, value>>  *)
(* members, blacklist.json is a list of user ids.                          *)
(***************************************************************************)
EXTENDS Integers, Sequences, FiniteSets, TLC

VARIABLES
    HOUSES,     \* the configured houses, in order (read from the environment at start-up)
    apps,       \* applications.json: list of <<str(user id), record>>
    archive,    \* archive.json: list of <<str(user id), record>>
    blacklist,  \* blacklist.json: list of user ids
    user_data,  \* context.user_data of every user: a dict
    chat_data,  \* context.chat_data of every private chat: a dict
    kbShown,    \* per user: the chat holds an older message with the cad_ok /
                \* cad_no keyboard
    now,        \* the clock, in days
    ticks,      \* how many times the clock has advanced
    writable,   \* per JSON file: writes to it succeed
    reachable,  \* per chat: bot.send_message to it succeeds (the user has not
                \* stopped the bot)
    noticed,    \* the expiry notices delivered so far: the applicant and the
                \* created_at of the application each was about
    update,     \* the update being processed: its kind, sender and payload
    outbox,     \* the messages its handlers have sent, in order
    suspended,  \* the handler that awaits the send of a notice: its local variables
    inText,     \* normalizer harness: the text given to normalize_cadastre
    sepText,    \* normalizer harness: inText with non-digit characters inserted
    normDone,   \* normalizer harness: normalize_cadastre has been applied
    normOut,    \* normalizer harness: normalize_cadastre(inText)
    sepOut      \* normalizer harness: normalize_cadastre(sepText)

normVars == <<inText, sepText, normDone, normOut, sepOut>>

botVars == <<HOUSES, apps, archive, blacklist, user_data, chat_data, kbShown, now,
             ticks, writable, reachable, noticed, update, outbox, suspended>>

vars == <<HOUSES, apps, archive, blacklist, user_data, chat_data, kbShown, now,
          ticks, writable, reachable, noticed, update, outbox, suspended, inText, sepText, normDone, normOut,
          sepOut>>

(***************************************************************************)
(* Characters                                                              *)
(***************************************************************************)
\* ASCII decimal digits, in order.
DigitChar == <<"0", "1", "2", "3", "4", "5", "6", "7", "8", "9">>

AsciiDigits == {DigitChar[i] : i \in 1..10}

\* "sup2" stands for the one-character string U+00B2 (superscript two):
\* str.isdigit() is True for it, although it is no decimal digit.
\* "Be" stands for the Cyrillic capital letter U+0411.
IsDigit(c) == c \in AsciiDigits \cup {"sup2"}

\* Characters that are not digits and that a user can type between digits.
Separators == {" ", ":", "a"}

\* Optional[str]: None is the empty tuple, a string s is <<s>>.
None == <<>>

Some(s) == <<s>>

(***************************************************************************)
(* normalize_cadastre                                                      *)
(***************************************************************************)
DigitsOf(text) == SelectSeq(text, IsDigit)

\* The normalizer without the upper limit on the number of digits.
normalize_cadastre_nolimit(text) ==
    LET digits == DigitsOf(text)
        n == Len(digits)
    IN  IF n < 12
        THEN None
        ELSE Some(SubSeq(digits, 1, 2) \o <<":">> \o SubSeq(digits, 3, 4) \o <<":">>
                  \o SubSeq(digits, 5, n - 3) \o <<":">> \o SubSeq(digits, n - 2, n))

\* The normalizer without the filtering of non-digit characters.
normalize_cadastre_nofilter(text) ==
    LET digits == text
        n == Len(digits)
    IN  IF n < 12 \/ n > 20
        THEN None
        ELSE Some(SubSeq(digits, 1, 2) \o <<":">> \o SubSeq(digits, 3, 4) \o <<":">>
                  \o SubSeq(digits, 5, n - 3) \o <<":">> \o SubSeq(digits, n - 2, n))

normalize_cadastre(text) ==
    LET digits == DigitsOf(text)
        n == Len(digits)
    IN  IF n < 12 \/ n > 20
        THEN None
        ELSE Some(SubSeq(digits, 1, 2) \o <<":">> \o SubSeq(digits, 3, 4) \o <<":">>
                  \o SubSeq(digits, 5, n - 3) \o <<":">> \o SubSeq(digits, n - 2, n))

(***************************************************************************)
(* Configuration                                                           *)
(***************************************************************************)
\* The end users of the model and the configured administrators.
Users == {100001, 100002}

ADMINS == <<900001>>

AdminSet == {ADMINS[i] : i \in DOMAIN ADMINS}

Ids == Users \cup AdminSet

\* user.full_name and user.username of the Telegram profiles; "" is None.
FullName(u) == IF u = 100001 THEN "Anna" ELSE IF u = 100002 THEN "Boris" ELSE "Admin"

Username(u) == IF u = 100002 THEN "" ELSE "nick"

\* HOUSES as built from HOUSE<i> / CHAT<i>: the second house has no chat link.
House1 == [id |-> "house1", address |-> "addr1", chat_link |-> "link1"]

House2 == [id |-> "house2", address |-> "addr2", chat_link |-> ""]

HouseConfigs == {<<>>, <<House1>>, <<House1, House2>>}

HouseIds == {HOUSES[i].id : i \in DOMAIN HOUSES}

HouseOf(hid) == HOUSES[CHOOSE i \in DOMAIN HOUSES : HOUSES[i].id = hid]

ARCHIVE_KEEP_DAYS == 30

ACTIVE_APP_EXPIRE_DAYS == 7

\* A canned text is written as one word.
REJECT_TEMPLATES == <<(<<"bad_cadastre">>), (<<"unreadable_file">>), (<<"data_mismatch">>)>>

REPLY_TEMPLATES == <<(<<"in_24h">>), (<<"more_documents">>), (<<"checking">>),
                     (<<"will_contact">>)>>

STATUS_pending == "pending"

STATUS_approved == "approved"

STATUS_rejected == "rejected"

REASON_blocked == <<"user_blocked">>

REASON_expired == <<"review_time_expired">>

(***************************************************************************)
(* str() and int() of user ids                                             *)
(***************************************************************************)
RECURSIVE StrOfPos(_)
StrOfPos(n) == IF n < 10 THEN <<DigitChar[n + 1]>>
               ELSE Append(StrOfPos(n \div 10), DigitChar[(n % 10) + 1])

\* str(n) for n >= 0.
StrOf(n) == StrOfPos(n)

DigitValue(c) == (CHOOSE i \in 1..10 : DigitChar[i] = c) - 1

RECURSIVE IntOf(_)
\* int(text) for a text of ASCII digits.
IntOf(text) == IF Len(text) = 0 THEN 0
               ELSE 10 * IntOf(SubSeq(text, 1, Len(text) - 1)) + DigitValue(text[Len(text)])

\* str.isdigit(): non-empty and every character a digit.
IsDigitText(text) == Len(text) > 0 /\ \A i \in DOMAIN text : IsDigit(text[i])

\* int(text) raises ValueError unless every character is a decimal digit.
IntParses(text) == Len(text) > 0 /\ \A i \in DOMAIN text : text[i] \in AsciiDigits

(***************************************************************************)
(* Dicts                                                                   *)
(***************************************************************************)
\* A dict with fixed-word keys: a function on the keys present.
EmptyDict == [k \in {} |-> 0]

DHas(d, k) == k \in DOMAIN d

DGet(d, k, default) == IF k \in DOMAIN d THEN d[k] ELSE default

DPut(d, k, v) == [x \in (DOMAIN d) \cup {k} |-> IF x = k THEN v ELSE d[x]]

DPop(d, k) == [x \in (DOMAIN d) \ {k} |-> d[x]]

\* A JSON object file: the list of its <<key, value>> members.
Keys(obj) == {obj[i][1] : i \in DOMAIN obj}

Has(obj, k) == \E i \in DOMAIN obj : obj[i][1] = k

Get(obj, k) == obj[CHOOSE i \in DOMAIN obj : obj[i][1] = k][2]

\* obj[k] = v that appends a member without looking for the key.
PutAppend(obj, k, v) == Append(obj, <<k, v>>)

\* obj[k] = v
Put(obj, k, v) ==
    IF Has(obj, k)
    THEN [i \in DOMAIN obj |-> IF obj[i][1] = k THEN <<k, v>> ELSE obj[i]]
    ELSE Append(obj, <<k, v>>)

\* del obj[k]
Del(obj, k) ==
    LET keep(m) == m[1] # k
    IN  SelectSeq(obj, keep)

InList(x, list) == \E i \in DOMAIN list : list[i] = x

\* list.remove(x): removes the first occurrence.
RemoveFirst(list, x) ==
    LET i == CHOOSE j \in DOMAIN list : list[j] = x /\ \A h \in 1..(j - 1) : list[h] # x
    IN  SubSeq(list, 1, i - 1) \o SubSeq(list, i + 1, Len(list))

is_admin(user_id) == user_id \in AdminSet

is_blocked(user_id, bl) == InList(user_id, bl)

(***************************************************************************)
(* The state a handler works on                                            *)
(***************************************************************************)
\* The files, the caller's user_data and chat_data, whether the caller's chat
\* holds a message with the confirmation keyboard that the session no longer
\* refers to, and the messages sent so far.
Ctx(u) ==
    [apps |-> apps, archive |-> archive, blacklist |-> blacklist,
     ud |-> user_data[u], cd |-> chat_data[u], kb |-> kbShown[u], out |-> <<>>,
     raised |-> FALSE]

\* The handler raises an exception it does not catch: it ends here, with what
\* it has written so far, and the dispatcher logs the exception.
Raise(c) == [c EXCEPT !.raised = TRUE]

NoUpdate == [kind |-> "none"]

\* No handler is suspended.
NoFrame == [action |-> "none"]

\* The record of a user ID in the application store (the empty dict when
\* there is none).
RecordOf(key) == IF Has(apps, key) THEN Get(apps, key) ELSE EmptyDict

\* The handlers of an update of u have run to their end: the stores and the
\* session take what they wrote.  The update is kept with prior, a record
\* the application store held when they ran, with the session they found and
\* with whether a handler raised an exception.
Store(u, c, upd, prior) ==
    /\ update' = [kind |-> upd.kind, from |-> upd.from, data |-> upd.data, prior |-> prior,
                  session |-> user_data[u], raised |-> c.raised]
    /\ apps' = c.apps
    /\ archive' = c.archive
    /\ blacklist' = c.blacklist
    /\ user_data' = [user_data EXCEPT ![u] = c.ud]
    /\ chat_data' = [chat_data EXCEPT ![u] = c.cd]
    /\ kbShown' = [kbShown EXCEPT ![u] = c.kb]
    /\ outbox' = c.out
    /\ UNCHANGED <<HOUSES, now, ticks, writable, reachable, noticed>>
    /\ UNCHANGED normVars

\* An update handled with no other handler running meanwhile; prior is the
\* record of its sender.
Commit(u, c, upd) == Store(u, c, upd, RecordOf(StrOf(u))) /\ UNCHANGED suspended

\* bot.send_message / reply_text / edit_message_text to a chat.
SendB(c, to, kind, body) ==
    [c EXCEPT !.out = Append(@, [to |-> to, kind |-> kind, edit |-> FALSE, body |-> body])]

Send(c, to, kind) == SendB(c, to, kind, <<>>)

\* bot.send_message to a chat raises (Forbidden: the user has stopped the bot).
SendFails(to) == to \in DOMAIN reachable /\ ~reachable[to]

\* bot.send_message inside try / except: the exception is logged or dropped
\* and the handler goes on.  NotifyB_rollback undoes what the handler has
\* written to the files when the send fails.
NotifyB_rollback(c, to, kind, body) ==
    IF SendFails(to)
    THEN [c EXCEPT !.apps = apps, !.archive = archive, !.blacklist = blacklist]
    ELSE SendB(c, to, kind, body)

NotifyB(c, to, kind, body) == IF SendFails(to) THEN c ELSE SendB(c, to, kind, body)

Notify(c, to, kind) == NotifyB(c, to, kind, <<>>)

\* save_json_with_backup(path, data): the file takes the data if the write
\* succeeds.  SaveOk_always is a save that never reports a failure.
SaveOk_always(file) == TRUE

SaveOk(file) == writable[file]

Save(c, file, data) == IF SaveOk(file) THEN [c EXCEPT ![file] = data] ELSE c

BotInit ==
    /\ HOUSES \in HouseConfigs
    /\ apps = <<>>
    /\ archive = <<>>
    /\ blacklist = <<>>
    /\ user_data = [u \in Ids |-> EmptyDict]
    /\ chat_data = [u \in Ids |-> EmptyDict]
    /\ kbShown = [u \in Ids |-> FALSE]
    /\ now = 0
    /\ ticks = 0
    /\ writable = [f \in {"apps", "archive", "blacklist"} |-> TRUE]
    /\ reachable = [u \in Ids |-> TRUE]
    /\ noticed = {}
    /\ update = NoUpdate
    /\ outbox = <<>>
    /\ suspended = NoFrame

(***************************************************************************)
(* Archive and clean-up                                                    *)
(***************************************************************************)
\* move_to_archive that leaves the record in the active store.
move_to_archive_keep(c, app_id, app_data) ==
    Save(c, "archive", Put(c.archive, app_id, app_data))

move_to_archive(c, app_id, app_data) ==
    LET arch == Put(c.archive, app_id, app_data)
        c1 == IF Has(c.apps, app_id) THEN Save(c, "apps", Del(c.apps, app_id)) ELSE c
    IN  Save(c1, "archive", arch)

cleanup_archive(c) ==
    LET keep(m) == ~(DHas(m[2], "created_at") /\ now - m[2]["created_at"] > ARCHIVE_KEEP_DAYS)
        rest == SelectSeq(c.archive, keep)
    IN  IF Len(rest) < Len(c.archive) THEN Save(c, "archive", rest) ELSE c

\* The record as a decision leaves it: status rejected, with the reason.
Rejected(data, reason) == DPut(DPut(data, "status", STATUS_rejected), "reject_reason", reason)

IsExpired(data) ==
    /\ DGet(data, "status", "") = STATUS_pending
    /\ DHas(data, "created_at")
    /\ now - data["created_at"] > ACTIVE_APP_EXPIRE_DAYS

RECURSIVE ExpireFrom(_, _, _)
\* The loop of cleanup_expired_applications over the members read at its start.
ExpireFrom(c, items, i) ==
    IF i > Len(items) THEN c
    ELSE IF IsExpired(items[i][2])
         THEN ExpireFrom(move_to_archive(c, items[i][1], Rejected(items[i][2], REASON_expired)),
                         items, i + 1)
         ELSE ExpireFrom(c, items, i + 1)

\* cleanup_expired_applications that expires nothing.
cleanup_expired_applications_none(c) == c

cleanup_expired_applications(c) == ExpireFrom(c, c.apps, 1)

cleanup_data(c) == cleanup_expired_applications(cleanup_archive(c))

(***************************************************************************)
(* Texts                                                                   *)
(***************************************************************************)
\* A button label is written as the marker "#" and one word for the label; the
\* word "kw" stands for an occurrence of a help keyword.
TXT_STATUS == <<"#", "status">>

TXT_CONTACT == <<"#", "contact">>

TXT_CANCEL == <<"#", "cancel">>

TXT_APPLY == <<"#", "apply">>

TXT_APPLY_NEW == <<"#", "apply_new">>

TXT_HELP == <<"#", "help">>

TXT_LIST == <<"#", "list">>

TXT_ARCHIVE == <<"#", "archive">>

TXT_BLACKLIST == <<"#", "blacklist">>

HasHelpKeyword(text) == \E i \in DOMAIN text : text[i] = "kw"

Letters == {"a", "Be"}

RECURSIVE LStrip(_)
LStrip(text) == IF Len(text) > 0 /\ text[1] = " " THEN LStrip(Tail(text)) ELSE text

RECURSIVE RStrip(_)
RStrip(text) == IF Len(text) > 0 /\ text[Len(text)] = " "
                THEN RStrip(SubSeq(text, 1, Len(text) - 1)) ELSE text

\* str.strip()
Strip(text) == RStrip(LStrip(text))

validate_flat_number(text0) ==
    LET text == Strip(text0)
        n == Len(text)
    IN  /\ n > 0
        /\ n <= 4
        /\ text[1] \in AsciiDigits
        /\ \A i \in 1..(n - 1) : text[i] \in AsciiDigits
        /\ text[n] \in AsciiDigits \cup Letters

FLAT_OK == <<"1", "2", "Be">>

FLAT_LONG == <<"1", "2", "3", "4", "5">>

CAD_OK == <<"7", "7", " ", "0", "1", " ", "0", "0", "1", "2", "3", "4", "5", " ", "6", "7", "8">>

OTHER_TEXT == <<"h", "i">>

UserTexts ==
    {TXT_STATUS, TXT_CONTACT, TXT_CANCEL, TXT_APPLY, TXT_HELP, <<"kw", "?">>,
     <<"1">>, <<"2">>, FLAT_OK, FLAT_LONG, CAD_OK, OTHER_TEXT}

(***************************************************************************)
(* Messages to the user                                                    *)
(***************************************************************************)
\* edit_message_text: a message already in the chat is replaced.
Edit(c, to, kind) ==
    [c EXCEPT !.out = Append(@, [to |-> to, kind |-> kind, edit |-> TRUE, body |-> <<>>])]

HasLastMessage(c) == DGet(c.ud, "last_app_message_id", 0) # 0

\* The id of the last application message is written 1 when the message has
\* no inline keyboard and 2 when it carries the confirmation keyboard.
PLAIN == 1

WITH_KEYBOARD == 2

\* send_app_message: edits the last application message or sends a new one,
\* and remembers its id.
send_app_message(c, u, kind, keyboard) ==
    LET c1 == IF HasLastMessage(c) THEN Edit(c, u, kind) ELSE Send(c, u, kind)
    IN  [c1 EXCEPT !.ud = DPut(@, "last_app_message_id", keyboard)]

\* context.user_data.clear(); a message with the keyboard stays in the chat.
Clear(c) ==
    [c EXCEPT !.ud = EmptyDict,
              !.kb = @ \/ DGet(c.ud, "last_app_message_id", 0) = WITH_KEYBOARD]

SetUd(c, k, v) == [c EXCEPT !.ud = DPut(@, k, v)]

RECURSIVE SendToAdmins(_, _, _)
\* for admin_id in ADMINS: send_message(admin_id, ...)
SendToAdmins(c, kind, i) ==
    IF i > Len(ADMINS) THEN c ELSE SendToAdmins(Send(c, ADMINS[i], kind), kind, i + 1)

\* notify_admins_about_new_app that reaches no admin.
notify_admins_about_new_app_none(c, u) == c

notify_admins_about_new_app(c, u) == SendToAdmins(c, "new_app", 1)

should_show_advice(u) == FullName(u) = "" \/ Username(u) = ""

send_contact_message(c, u) ==
    LET contact_data == DGet(c.ud, "contact_data", [text |-> <<>>, files |-> <<>>])
    IN  IF contact_data.text = <<>> /\ contact_data.files = <<>>
        THEN Send(c, u, "contact_empty")
        ELSE Send(Clear(SendToAdmins(c, "contact_message", 1)), u, "contact_sent")

\* The branch every handler of user events takes for a blocked user.
BlockedBranch(c, u) ==
    LET c1 == Send(c, u, "block_notice")
        key == StrOf(u)
    IN  IF Has(c1.apps, key) /\ DGet(Get(c1.apps, key), "status", "") = STATUS_pending
        THEN move_to_archive(c1, key, Rejected(Get(c1.apps, key), REASON_blocked))
        ELSE c1

(***************************************************************************)
(* /start                                                                  *)
(***************************************************************************)
StartArgs == {"", "house1", "nohouse"}

AskFlat(c, u) == send_app_message(SetUd(c, "step", "flat"), u, "prompt_flat", PLAIN)

AskHouse(c, u) ==
    send_app_message(SetUd(c, "step", "select_house"), u, "prompt_house", PLAIN)

\* start from the call of cleanup_data on: what a user who is not blocked gets.
StartFlow(c, u, arg) ==
    LET c1 == cleanup_data(c)
    IN  IF arg # "" /\ arg \in HouseIds
        THEN LET c2 == SetUd(c1, "house_id", arg)
             IN  IF is_admin(u)
                 THEN Send(c2, u, "admin_panel")
                 ELSE AskFlat(Send(c2, u, "welcome"), u)
        ELSE IF is_admin(u)
             THEN Send(c1, u, "admin_panel")
             ELSE LET c2 == Send(c1, u, "welcome")
                  IN  IF Len(HOUSES) > 1
                      THEN AskHouse(c2, u)
                      ELSE IF Len(HOUSES) = 0
                           THEN Raise(c2)   \* list(HOUSES.keys())[0] raises IndexError
                           ELSE AskFlat(SetUd(c2, "house_id", HOUSES[1].id), u)

\* start without the check of the blacklist.
start_unguarded(c0, u, arg) == StartFlow(Clear(c0), u, arg)

\* start without context.user_data.clear().
start_keeping(c, u, arg) ==
    IF ~is_admin(u) /\ is_blocked(u, c.blacklist)
    THEN BlockedBranch(c, u)
    ELSE StartFlow(c, u, arg)

\* start that turns away every ID on the blocklist, an admin's too.
start_anyone(c0, u, arg) ==
    LET c == Clear(c0)
    IN  IF is_blocked(u, c.blacklist)
        THEN BlockedBranch(c, u)
        ELSE StartFlow(c, u, arg)

start(c0, u, arg) ==
    LET c == Clear(c0)
    IN  IF ~is_admin(u) /\ is_blocked(u, c.blacklist)
        THEN BlockedBranch(c, u)
        ELSE StartFlow(c, u, arg)

Start(u, arg) ==
    /\ update = NoUpdate
    /\ Commit(u, start(Ctx(u), u, arg), [kind |-> "start", from |-> u, data |-> arg])

(***************************************************************************)
(* Text messages of a user                                                 *)
(***************************************************************************)
NoStep == "None"

StepOf(c) == DGet(c.ud, "step", NoStep)

BeginApplication(c0, u) ==
    LET c == Clear(c0)
    IN  IF Len(HOUSES) = 0
        THEN Send(c, u, "unavailable")
        ELSE LET c1 == Send(c, u, "welcome_apply")
             IN  IF Len(HOUSES) = 1
                 THEN AskFlat(SetUd(c1, "house_id", HOUSES[1].id), u)
                 ELSE AskHouse(c1, u)

SelectHouse(c, u, text) ==
    IF ~IntParses(text)
    THEN Send(c, u, "enter_digit")
    ELSE LET choice == IntOf(text)
         IN  IF 1 <= choice /\ choice <= Len(HOUSES)
             THEN send_app_message(
                      SetUd(SetUd(c, "house_id", HOUSES[choice].id), "step", "flat"),
                      u, "prompt_flat", PLAIN)
             ELSE Send(c, u, "enter_number_in_range")

EnterFlat(c, u, text) ==
    IF ~validate_flat_number(text)
    THEN Send(c, u, "flat_invalid")
    ELSE send_app_message(SetUd(SetUd(c, "flat", Strip(text)), "step", "cad"),
                          u, "prompt_cad", PLAIN)

\* EnterCadastre that forgets the session when the text does not normalize.
EnterCadastre_forgetful(c, u, text) ==
    LET cadastre == normalize_cadastre(text)
    IN  IF cadastre = None
        THEN Send(Clear(c), u, "cadastre_invalid")
        ELSE LET c1 == SetUd(c, "cad", cadastre[1])
             IN  IF ~DHas(c1.ud, "flat")
                 THEN Raise(c1)
                 ELSE send_app_message(c1, u, "confirm_cadastre", WITH_KEYBOARD)

EnterCadastre(c, u, text) ==
    LET cadastre == normalize_cadastre(text)
    IN  IF cadastre = None
        THEN Send(c, u, "cadastre_invalid")
        ELSE LET c1 == SetUd(c, "cad", cadastre[1])
             IN  IF ~DHas(c1.ud, "flat")
                 THEN Raise(c1)   \* context.user_data['flat'] raises KeyError
                 ELSE send_app_message(c1, u, "confirm_cadastre", WITH_KEYBOARD)

handle_user_message(c, u, text) ==
    LET step == StepOf(c)
    IN  IF text = TXT_STATUS
        THEN IF Has(c.apps, StrOf(u)) THEN Send(c, u, "status_info")
                                      ELSE Send(c, u, "no_active_apps")
        ELSE IF text = TXT_CONTACT
        THEN Send(SetUd(SetUd(c, "step", "contact"),
                        "contact_data", [text |-> <<>>, files |-> <<>>]),
                  u, "contact_prompt")
        ELSE IF Len(text) = 1 /\ step = "contact"
        THEN Send(Clear(c), u, "contact_cancelled")
        ELSE IF text = TXT_CANCEL
        THEN Send(Clear(c), u, "entry_cancelled")
        ELSE IF text = TXT_APPLY \/ text = TXT_APPLY_NEW
        THEN BeginApplication(c, u)
        ELSE IF step = "select_house"
        THEN SelectHouse(c, u, text)
        ELSE IF step = "contact"
        THEN send_contact_message(
                 SetUd(c, "contact_data", [c.ud["contact_data"] EXCEPT !.text = text]), u)
        ELSE IF step = "flat"
        THEN EnterFlat(c, u, text)
        ELSE IF step = "cad"
        THEN EnterCadastre(c, u, text)
        ELSE c

show_context_help(c, u) ==
    LET c1 == Send(c, u, "help")
    IN  IF StepOf(c) \in {"flat", "cad", "contact"} THEN Send(c1, u, "help_step") ELSE c1

(***************************************************************************)
(* Files                                                                   *)
(***************************************************************************)
MaxContactFiles == 1

FilePath(u) == <<"file", u>>

\* The record handle_file and handle_user_callback build for a submission.
NewRecord(u, house_id, flat, cadastre) ==
    [user_id |-> u, name |-> FullName(u), username |-> Username(u),
     house_id |-> house_id, flat |-> flat, cadastre |-> cadastre,
     status |-> STATUS_pending, created_at |-> now]

\* query.edit_message_text on the pressed message: its keyboard is gone.
\* pressed says which message carried the button: the session's last
\* application message or an older one.
EditPressed(c, u, kind, pressed) ==
    IF pressed = "last"
    THEN SetUd(Edit(c, u, kind), "last_app_message_id", PLAIN)
    ELSE [Edit(c, u, kind) EXCEPT !.kb = FALSE]

\* What both submission paths do once the record is saved; the last step,
\* context.user_data.clear(), is left to the caller's kind of confirmation.
AfterSubmission(c, u, pressed) ==
    LET c1 == notify_admins_about_new_app(c, u)
        c2 == IF pressed # "none"
              THEN Send(EditPressed(c1, u, "submitted_short", pressed), u, "submitted")
              ELSE Send(c1, u, "submitted")
        c3 == IF should_show_advice(u) THEN Send(c2, u, "advice") ELSE c2
    IN  Clear(c3)

ContactFile(c, u, caption) ==
    LET cd0 == DGet(c.ud, "contact_data", [text |-> <<>>, files |-> <<>>])
        c1 == SetUd(c, "contact_data", [cd0 EXCEPT !.files = Append(@, FilePath(u))])
    IN  IF caption # <<>>
        THEN IF Len(Strip(caption)) = 1
             THEN Send(Clear(c1), u, "contact_cancelled")
             ELSE send_contact_message(
                      SetUd(c1, "contact_data", [c1.ud["contact_data"] EXCEPT !.text = caption]),
                      u)
        ELSE Send(c1, u, "file_received")

\* handle_file that accepts the upload in every step but that of the contact.
handle_file_anystep(c, u, caption) ==
    IF ~is_admin(u) /\ is_blocked(u, c.blacklist)
    THEN BlockedBranch(c, u)
    ELSE IF StepOf(c) = "contact"
    THEN ContactFile(c, u, caption)
    ELSE LET rec == DPut(NewRecord(u, DGet(c.ud, "house_id", ""), DGet(c.ud, "flat", <<>>),
                                   DGet(c.ud, "cad", <<>>)),
                         "file", FilePath(u))
         IN  IF SaveOk("apps")
             THEN AfterSubmission(Save(c, "apps", Put(c.apps, StrOf(u), rec)), u, "none")
             ELSE Send(c, u, "save_error")

handle_file(c, u, caption) ==
    IF ~is_admin(u) /\ is_blocked(u, c.blacklist)
    THEN BlockedBranch(c, u)
    ELSE IF StepOf(c) = "contact"
    THEN ContactFile(c, u, caption)
    ELSE IF StepOf(c) # "cad"
    THEN Send(c, u, "enter_flat_first")
    ELSE LET rec == DPut(NewRecord(u, DGet(c.ud, "house_id", ""), DGet(c.ud, "flat", <<>>),
                                   DGet(c.ud, "cad", <<>>)),
                         "file", FilePath(u))
         IN  IF SaveOk("apps")
             THEN AfterSubmission(Save(c, "apps", Put(c.apps, StrOf(u), rec)), u, "none")
             ELSE Send(c, u, "save_error")

Captions == {<<>>, OTHER_TEXT}

File(u, caption) ==
    /\ update = NoUpdate
    /\ StepOf(Ctx(u)) = "contact" =>
           Len(DGet(user_data[u], "contact_data", [files |-> <<>>]).files) < MaxContactFiles
    /\ Commit(u, handle_file(Ctx(u), u, caption),
              [kind |-> "file", from |-> u, data |-> caption])

(***************************************************************************)
(* The buttons of the confirmation keyboard                                *)
(***************************************************************************)
CadOk(c, u, pressed) ==
    IF ~({"house_id", "flat", "cad"} \subseteq DOMAIN c.ud)
    THEN Raise(c)   \* context.user_data[...] raises KeyError
    ELSE LET rec == NewRecord(u, c.ud["house_id"], c.ud["flat"], c.ud["cad"])
         IN  IF SaveOk("apps")
             THEN AfterSubmission(Save(c, "apps", Put(c.apps, StrOf(u), rec)), u, pressed)
             ELSE EditPressed(c, u, "save_error", pressed)

\* CadNo that keeps the cadastral number in the session.
CadNo_keeping(c, u, pressed) ==
    LET c1 == SetUd(c, "step", "cad")
    IN  IF ~DHas(c1.ud, "flat")
        THEN Raise(c1)
        ELSE EditPressed(c1, u, "prompt_cad", pressed)

CadNo(c, u, pressed) ==
    LET c1 == SetUd([c EXCEPT !.ud = DPop(@, "cad")], "step", "cad")
    IN  IF ~DHas(c1.ud, "flat")
        THEN Raise(c1)   \* context.user_data['flat'] raises KeyError
        ELSE EditPressed(c1, u, "prompt_cad", pressed)

handle_user_callback(c, u, data, pressed) ==
    IF data[1] = "cad_ok" THEN CadOk(c, u, pressed) ELSE CadNo(c, u, pressed)

(***************************************************************************)
(* Moderation                                                              *)
(***************************************************************************)
SetCd(c, k, v) == [c EXCEPT !.cd = DPut(@, k, v)]

PopCd(c, k) == [c EXCEPT !.cd = DPop(@, k)]

\* send_simple_invite that sends nothing.
send_simple_invite_quiet(c, target, rec) == c

\* send_simple_invite; InviteSent is its return value.
InviteSent(target, rec) ==
    LET house_id == DGet(rec, "house_id", "")
    IN  /\ house_id # "" /\ house_id \in HouseIds /\ HouseOf(house_id).chat_link # ""
        /\ ~SendFails(target)

\* send_simple_invite that sends the link of the first house that has one.
send_simple_invite_anylink(c, target, rec) ==
    LET linked == {i \in DOMAIN HOUSES : HOUSES[i].chat_link # ""}
    IN  IF SendFails(target) \/ linked = {}
        THEN c
        ELSE SendToAdmins(SendB(c, target, "approved_link",
                                <<HOUSES[CHOOSE i \in linked : TRUE].chat_link>>),
                          "link_sent", 1)

send_simple_invite(c, target, rec) ==
    LET house_id == DGet(rec, "house_id", "")
    IN  IF SendFails(target)
        THEN c   \* the exception of send_message is caught: return False
        ELSE IF house_id = "" \/ house_id \notin HouseIds
        THEN Send(c, target, "approved_no_house")
        ELSE IF HouseOf(house_id).chat_link = ""
        THEN Send(c, target, "approved_no_link")
        ELSE SendToAdmins(SendB(c, target, "approved_link", <<HouseOf(house_id).chat_link>>),
                          "link_sent", 1)

\* process_rejection that records the first canned reason whatever was given.
process_rejection_canned(c, admin, app_id, reason, viaQuery) ==
    IF ~Has(c.apps, app_id)
    THEN c
    ELSE LET c1 == move_to_archive(c, app_id,
                                   Rejected(Get(c.apps, app_id), REJECT_TEMPLATES[1]))
             c2 == IF IntParses(app_id) THEN NotifyB(c1, IntOf(app_id), "rejected", reason)
                                        ELSE c1
             c3 == IF viaQuery THEN Edit(c2, admin, "rejection_done") ELSE c2
         IN  PopCd(c3, "pending_reject_app")

\* process_rejection that tells the user of the rejection though no record
\* is stored.
process_rejection_blind(c, admin, app_id, reason, viaQuery) ==
    IF ~Has(c.apps, app_id)
    THEN IF IntParses(app_id) THEN NotifyB(c, IntOf(app_id), "rejected", reason) ELSE c
    ELSE LET c1 == move_to_archive(c, app_id, Rejected(Get(c.apps, app_id), reason))
             c2 == IF IntParses(app_id) THEN NotifyB(c1, IntOf(app_id), "rejected", reason)
                                        ELSE c1
             c3 == IF viaQuery THEN Edit(c2, admin, "rejection_done") ELSE c2
         IN  PopCd(c3, "pending_reject_app")

\* process_rejection; it returns whether app_id was in the active store.
process_rejection(c, admin, app_id, reason, viaQuery) ==
    IF ~Has(c.apps, app_id)
    THEN c
    ELSE LET c1 == move_to_archive(c, app_id, Rejected(Get(c.apps, app_id), reason))
             c2 == IF IntParses(app_id) THEN NotifyB(c1, IntOf(app_id), "rejected", reason)
                                        ELSE c1
             c3 == IF viaQuery THEN Edit(c2, admin, "rejection_done") ELSE c2
         IN  PopCd(c3, "pending_reject_app")

\* The approve branch up to its first await: apps[target_id] of the store
\* read at the head of the handler is marked, and the store saved.
Approved(c, target_id) == DPut(Get(c.apps, target_id), "status", STATUS_approved)

ApproveMark(c, target_id) == Save(c, "apps", Put(c.apps, target_id, Approved(c, target_id)))

\* The approve branch from the send of the invite on; rec is apps[target_id]
\* as the handler holds it in memory.
ApproveRest(c, admin, target_id, rec) ==
    LET c2 == send_simple_invite(c, IntOf(target_id), rec)
        c3 == move_to_archive(c2, target_id, rec)
    IN  IF InviteSent(IntOf(target_id), rec) THEN Edit(c3, admin, "approve_done")
                           ELSE Edit(c3, admin, "approve_done_no_link")

Approve(c, admin, target_id) ==
    IF ~Has(c.apps, target_id)
    THEN c
    ELSE ApproveRest(ApproveMark(c, target_id), admin, target_id, Approved(c, target_id))

\* Block that appends the ID without looking whether the list holds it.
Block_again(c, admin, target_id) ==
    LET target == IntOf(target_id)
    IN  IF ~SaveOk("blacklist")
        THEN Edit(c, admin, "blacklist_save_error")
        ELSE LET c1 == Notify(Save(c, "blacklist", Append(c.blacklist, target)), target,
                              "blocked_notice")
                 c2 == IF Has(c.apps, target_id)
                          /\ DGet(Get(c.apps, target_id), "status", "") = STATUS_pending
                       THEN move_to_archive(c1, target_id,
                                            Rejected(Get(c.apps, target_id), REASON_blocked))
                       ELSE c1
             IN  Edit(c2, admin, "block_done")

Block(c, admin, target_id) ==
    LET target == IntOf(target_id)
    IN  IF InList(target, c.blacklist)
        THEN Edit(c, admin, "already_blocked")
        ELSE IF ~SaveOk("blacklist")
        THEN Edit(c, admin, "blacklist_save_error")
        ELSE LET c1 == Notify(Save(c, "blacklist", Append(c.blacklist, target)), target,
                              "blocked_notice")
                 c2 == IF Has(c.apps, target_id)
                          /\ DGet(Get(c.apps, target_id), "status", "") = STATUS_pending
                       THEN move_to_archive(c1, target_id,
                                            Rejected(Get(c.apps, target_id), REASON_blocked))
                       ELSE c1
             IN  Edit(c2, admin, "block_done")

\* Unblock that does not tell the user.
Unblock_silent(c, admin, target_id) ==
    LET target == IntOf(target_id)
    IN  IF ~InList(target, c.blacklist)
        THEN Edit(c, admin, "was_not_blocked")
        ELSE IF ~SaveOk("blacklist")
        THEN Edit(c, admin, "blacklist_save_error")
        ELSE Edit(Save(c, "blacklist", RemoveFirst(c.blacklist, target)), admin, "unblock_done")

Unblock(c, admin, target_id) ==
    LET target == IntOf(target_id)
    IN  IF ~InList(target, c.blacklist)
        THEN Edit(c, admin, "was_not_blocked")
        ELSE IF ~SaveOk("blacklist")
        THEN Edit(c, admin, "blacklist_save_error")
        ELSE Edit(Notify(Save(c, "blacklist", RemoveFirst(c.blacklist, target)), target,
                         "unblocked_notice"),
                  admin, "unblock_done")

handle_admin_callback(c, u, data) ==
    LET action == data[1]
        target_id == data[2]
    IN  IF ~is_admin(u) THEN Edit(c, u, "denied")
        ELSE IF Len(data) < 2 THEN Edit(c, u, "unknown_command")
        ELSE IF action = "cancel" THEN Edit(c, u, "action_cancelled")
        ELSE IF action = "cancel_reply" THEN Edit(c, u, "reply_cancelled")
        ELSE IF action = "reject_template" /\ Len(data) = 3 /\ data[3] \in DOMAIN REJECT_TEMPLATES
        THEN process_rejection(c, u, target_id, REJECT_TEMPLATES[data[3]], TRUE)
        ELSE IF action = "reply_template" /\ Len(data) = 3 /\ data[3] \in DOMAIN REPLY_TEMPLATES
        THEN IF IntParses(target_id) /\ ~SendFails(IntOf(target_id))
             THEN Edit(SendB(c, IntOf(target_id), "admin_message", REPLY_TEMPLATES[data[3]]),
                       u, "reply_sent")
             ELSE Edit(c, u, "reply_failed")
        ELSE IF ~IntParses(target_id) THEN Edit(c, u, "invalid_user_id")
        ELSE IF action = "block" THEN Block(c, u, target_id)
        ELSE IF action = "unblock" THEN Unblock(c, u, target_id)
        ELSE IF action = "approve" THEN Approve(c, u, target_id)
        ELSE IF action = "reject"
        THEN IF Has(c.apps, target_id)
             THEN Edit(SetCd(c, "pending_reject_app", target_id), u, "choose_reason")
             ELSE c
        ELSE IF action = "reply"
        THEN IF Has(c.apps, target_id)
             THEN Edit(SetCd(c, "replying_to", target_id), u, "choose_reply")
             ELSE c
        ELSE IF action = "reject_custom"
        THEN Edit(SetCd(c, "rejecting_app", target_id), u, "enter_reason")
        ELSE IF action = "reply_custom"
        THEN Edit(SetCd(c, "replying_to_custom", target_id), u, "enter_reply")
        ELSE Edit(c, u, "unknown_command")

(***************************************************************************)
(* Archive and blacklist menus                                             *)
(***************************************************************************)
RECURSIVE SendCards(_, _, _, _)
\* One message per listed application, at most 5 on a page.
SendCards(c, to, kind, n) ==
    IF n = 0 THEN c ELSE SendCards(Send(c, to, kind), to, kind, n - 1)

Min(a, b) == IF a < b THEN a ELSE b

StatusCount(obj, status) ==
    Cardinality({i \in DOMAIN obj : DGet(obj[i][2], "status", "") = status})

archive_command(c0, u) ==
    IF ~is_admin(u) THEN c0
    ELSE LET c == cleanup_archive(c0)
         IN  IF c.archive = <<>> THEN Send(c, u, "archive_empty")
                                 ELSE Send(c, u, "archive_menu")

blacklist_command(c, u) ==
    IF ~is_admin(u) THEN c
    ELSE IF c.blacklist = <<>> THEN Send(c, u, "blacklist_empty")
                               ELSE Send(c, u, "blacklist_menu")

handle_archive_callback(c, u, data) ==
    LET action == data[1]
    IN  IF ~is_admin(u) THEN c
        ELSE IF action = "archive_recent"
        THEN IF c.archive = <<>> THEN Edit(c, u, "archive_empty")
             ELSE SendCards(Edit(c, u, "archive_header"), u, "archive_card",
                            Min(Len(c.archive), 5))
        ELSE IF action \in {"archive_approved", "archive_rejected"}
        THEN LET n == StatusCount(c.archive, IF action = "archive_approved"
                                             THEN STATUS_approved ELSE STATUS_rejected)
             IN  IF n = 0 THEN Edit(c, u, "archive_none")
                 ELSE SendCards(Edit(c, u, "archive_header"), u, "archive_card", Min(n, 5))
        ELSE IF action = "archive_search"
        THEN Edit(SetCd(c, "archive_action", "search"), u, "enter_search_id")
        ELSE IF action = "archive_msg"
        THEN IF Len(data) >= 2
             THEN Edit(SetCd(c, "archive_replying_to", data[2]), u, "enter_message")
             ELSE c
        ELSE IF action = "archive_detail"
        THEN IF Len(data) >= 2
             THEN IF Has(c.archive, data[2]) THEN Edit(c, u, "archive_detail")
                                             ELSE Edit(c, u, "archive_not_found")
             ELSE c
        ELSE Raise(c)   \* archive_back: the name update is not defined, NameError

handle_blacklist_callback(c, u, data) ==
    IF ~is_admin(u) THEN c
    ELSE IF data[1] = "bl_add"
    THEN Edit(SetCd(c, "blacklist_action", "add"), u, "enter_id_to_add")
    ELSE IF data[1] = "bl_remove"
    THEN Edit(SetCd(c, "blacklist_action", "remove"), u, "enter_id_to_remove")
    ELSE Raise(c)   \* bl_refresh: the name update is not defined, NameError

IsPrefix(p, word) == word \in
    (IF p = "archive_"
     THEN {"archive_recent", "archive_approved", "archive_rejected", "archive_search",
           "archive_msg", "archive_detail", "archive_back"}
     ELSE {"bl_add", "bl_remove", "bl_refresh"})

handle_callback(c, u, data, pressed) ==
    IF data[1] \in {"cad_ok", "cad_no"} THEN handle_user_callback(c, u, data, pressed)
    ELSE IF IsPrefix("archive_", data[1]) THEN handle_archive_callback(c, u, data)
    ELSE IF IsPrefix("bl_", data[1]) THEN handle_blacklist_callback(c, u, data)
    ELSE handle_admin_callback(c, u, data)

(***************************************************************************)
(* Text messages of an admin                                               *)
(***************************************************************************)
TXT_STATS == <<"#", "stats">>

TXT_EXPORT == <<"#", "export">>

BlacklistById(c, u, text) ==
    LET action == c.cd["blacklist_action"]
        target_id == IntOf(text)
        key == StrOf(target_id)
    IN  IF ~IsDigitText(text) \/ text = <<"0">>
        THEN PopCd(Send(c, u, "blacklist_unchanged"), "blacklist_action")
        ELSE IF ~IntParses(text) THEN Send(c, u, "bad_id_format")
        ELSE IF target_id <= 0 THEN Send(c, u, "id_must_be_positive")
        ELSE IF target_id < 100000 THEN Send(c, u, "id_too_small")
        ELSE PopCd(
            IF action = "add"
            THEN IF InList(target_id, c.blacklist)
                 THEN Send(c, u, "already_in_blacklist")
                 ELSE IF ~SaveOk("blacklist")
                 THEN Send(c, u, "blacklist_save_error")
                 ELSE LET c1 == Notify(Save(c, "blacklist", Append(c.blacklist, target_id)),
                                       target_id, "blocked_notice")
                          c2 == IF Has(c1.apps, key)
                                   /\ DGet(Get(c1.apps, key), "status", "") = STATUS_pending
                                THEN move_to_archive(c1, key,
                                         Rejected(Get(c1.apps, key), REASON_blocked))
                                ELSE c1
                      IN  Send(c2, u, "blacklist_added")
            ELSE IF action = "remove"
            THEN IF ~InList(target_id, c.blacklist)
                 THEN Send(c, u, "not_in_blacklist")
                 ELSE IF ~SaveOk("blacklist")
                 THEN Send(c, u, "blacklist_save_error")
                 ELSE Send(Notify(Save(c, "blacklist", RemoveFirst(c.blacklist, target_id)),
                                  target_id, "unblocked_notice"),
                           u, "blacklist_removed")
            ELSE c,
            "blacklist_action")

\* ForwardText that forwards the text without its first character.
ForwardText_cut(c, u, key, text, done) ==
    LET target_id == c.cd[key]
    IN  PopCd(IF IntParses(target_id) /\ ~SendFails(IntOf(target_id))
              THEN Send(SendB(c, IntOf(target_id), "admin_message", Tail(text)), u, done)
              ELSE Send(c, u, "reply_failed"),
              key)

\* The branches of handle_admin_reply that forward the admin's text.
ForwardText(c, u, key, text, done) ==
    LET target_id == c.cd[key]
    IN  PopCd(IF IntParses(target_id) /\ ~SendFails(IntOf(target_id))
              THEN Send(SendB(c, IntOf(target_id), "admin_message", text), u, done)
              ELSE Send(c, u, "reply_failed"),
              key)

handle_admin_reply(c, u, text) ==
    IF ~is_admin(u) THEN c
    ELSE IF DHas(c.cd, "rejecting_app")
    THEN LET app_id == c.cd["rejecting_app"]
             c1 == process_rejection(c, u, app_id, text, FALSE)
         IN  PopCd(IF Has(c.apps, app_id) THEN Send(c1, u, "rejection_done")
                                          ELSE Send(c1, u, "rejection_error"),
                   "rejecting_app")
    ELSE IF DHas(c.cd, "replying_to_custom")
    THEN ForwardText(c, u, "replying_to_custom", text, "reply_sent")
    ELSE IF DHas(c.cd, "blacklist_action")
    THEN BlacklistById(c, u, text)
    ELSE IF DHas(c.cd, "archive_action") /\ c.cd["archive_action"] = "search"
    THEN PopCd(IF Has(c.archive, text)
               THEN SendCards(Send(c, u, "archive_found"), u, "archive_card", 1)
               ELSE Send(c, u, "archive_not_found"),
               "archive_action")
    ELSE IF DHas(c.cd, "archive_replying_to")
    THEN ForwardText(c, u, "archive_replying_to", text, "message_sent")
    ELSE c

AdminReplyKeys ==
    {"rejecting_app", "replying_to_custom", "blacklist_action", "archive_action",
     "archive_replying_to"}

\* The handler registered in group 1 for every text that is not a command.
admin_text_handler(c, u, text0) ==
    LET text == Strip(text0)
    IN  IF Len(text) = 1 /\ StepOf(c) = "contact"
        THEN Send(Clear(c), u, "contact_cancelled")
        ELSE IF is_admin(u) /\ (DOMAIN c.cd) \cap AdminReplyKeys # {}
        THEN handle_admin_reply(c, u, text)
        ELSE c

handle_admin_message(c, u, text) ==
    IF text = TXT_LIST
    THEN IF c.apps = <<>> THEN Send(c, u, "no_active_apps")
         ELSE IF StatusCount(c.apps, STATUS_pending) = 0 THEN Send(c, u, "all_processed")
         ELSE SendCards(c, u, "app_card", StatusCount(c.apps, STATUS_pending))
    ELSE IF text = TXT_STATS THEN Send(c, u, "stats")
    ELSE IF text = TXT_EXPORT THEN Send(c, u, "export")
    ELSE IF text = TXT_ARCHIVE THEN archive_command(c, u)
    ELSE IF text = TXT_BLACKLIST THEN blacklist_command(c, u)
    ELSE c

\* The handler registered in group 2 for every text that is not a command.
\* handle_message without the test for the help button and the help keywords.
handle_message_nohelp(c, u, text0) ==
    LET text == Strip(text0)
    IN  IF ~is_admin(u) /\ is_blocked(u, c.blacklist)
        THEN BlockedBranch(c, u)
        ELSE IF ~is_admin(u)
        THEN handle_user_message(c, u, text)
        ELSE handle_admin_message(c, u, text)

handle_message(c, u, text0) ==
    LET text == Strip(text0)
    IN  IF ~is_admin(u) /\ is_blocked(u, c.blacklist)
        THEN BlockedBranch(c, u)
        ELSE IF text = TXT_HELP \/ HasHelpKeyword(text)
        THEN show_context_help(c, u)
        ELSE IF ~is_admin(u)
        THEN handle_user_message(c, u, text)
        ELSE handle_admin_message(c, u, text)

(***************************************************************************)
(* The periodic job                                                        *)
(***************************************************************************)
RECURSIVE NotifyFrom(_, _)
\* notify_expired_applications: one notice per archived record with the
\* expiry reason, on every run.
NotifyFrom(c, i) ==
    IF i > Len(c.archive) THEN c
    ELSE IF DGet(c.archive[i][2], "reject_reason", <<>>) = REASON_expired
              /\ IntParses(c.archive[i][1])
         THEN NotifyFrom(Send(c, IntOf(c.archive[i][1]), "expired_notice"), i + 1)
         ELSE NotifyFrom(c, i + 1)

notify_expired_applications(c) == NotifyFrom(c, 1)

\* The applications notify_expired_applications sends a notice about: the
\* applicant and the created_at of every archived record with the expiry reason.
NoticesAbout(arch) ==
    {<<IntOf(arch[i][1]), DGet(arch[i][2], "created_at", 0)>> :
        i \in {j \in DOMAIN arch : /\ DGet(arch[j][2], "reject_reason", <<>>) = REASON_expired
                                    /\ IntParses(arch[j][1])}}

scheduled_cleanup(c) == notify_expired_applications(cleanup_data(c))

(***************************************************************************)
(* Events                                                                  *)
(***************************************************************************)
\* A text message runs the handler of group 1 and then the handler of group 2.
TextMessage(u, text) ==
    /\ update = NoUpdate
    /\ Commit(u, handle_message(admin_text_handler(Ctx(u), u, text), u, text),
              [kind |-> "text", from |-> u, data |-> text])

\* A button of the confirmation keyboard is pressed on a message that still
\* carries the keyboard.
PressUserButton(u, data, pressed) ==
    /\ update = NoUpdate
    /\ \/ pressed = "last" /\ DGet(user_data[u], "last_app_message_id", 0) = WITH_KEYBOARD
       \/ pressed = "old" /\ kbShown[u]
    /\ Commit(u, handle_callback(Ctx(u), u, data, pressed),
              [kind |-> "callback", from |-> u, data |-> data])

\* A callback query with the data of a button of the admin keyboards.
PressAdminButton(u, data) ==
    /\ update = NoUpdate
    /\ Commit(u, handle_callback(Ctx(u), u, data, "none"),
              [kind |-> "callback", from |-> u, data |-> data])

JobCtx ==
    [apps |-> apps, archive |-> archive, blacklist |-> blacklist,
     ud |-> EmptyDict, cd |-> EmptyDict, kb |-> FALSE, out |-> <<>>, raised |-> FALSE]

ScheduledCleanup ==
    /\ update = NoUpdate
    /\ LET c == scheduled_cleanup(JobCtx)
       IN  /\ apps' = c.apps
           /\ archive' = c.archive
           /\ outbox' = c.out
           /\ noticed' = noticed \cup NoticesAbout(c.archive)
    /\ update' = [kind |-> "job", prior |-> apps]
    /\ UNCHANGED <<HOUSES, blacklist, user_data, chat_data, kbShown, now, ticks, writable, reachable,
                   suspended>>
    /\ UNCHANGED normVars

MaxTicks == 1

TickDays == {8, 31}

\* Time passes between two events.
Tick(d) ==
    /\ update = NoUpdate
    /\ ticks < MaxTicks
    /\ now' = now + d
    /\ ticks' = ticks + 1
    /\ UNCHANGED <<HOUSES, apps, archive, blacklist, user_data, chat_data, kbShown,
                   writable, reachable, noticed, update, outbox, suspended>>
    /\ UNCHANGED normVars

\* The handlers of the update have returned, or one has raised an exception
\* that the dispatcher logs: the next update is taken.
Finish ==
    /\ update # NoUpdate
    /\ update' = NoUpdate
    /\ outbox' = <<>>
    /\ UNCHANGED <<HOUSES, apps, archive, blacklist, user_data, chat_data, kbShown, now,
                   ticks, writable, reachable, noticed, suspended>>
    /\ UNCHANGED normVars

\* The file system starts or stops refusing the writes to a JSON file: open()
\* in save_json raises IOError, and save_json returns False.
Fault(file, ok) ==
    /\ update = NoUpdate
    /\ writable[file] # ok
    /\ writable' = [writable EXCEPT ![file] = ok]
    /\ UNCHANGED <<HOUSES, apps, archive, blacklist, user_data, chat_data, kbShown, now,
                   ticks, reachable, noticed, update, outbox, suspended>>
    /\ UNCHANGED normVars

\* A user stops the bot, or starts it again: bot.send_message to the chat of
\* the user raises Forbidden from then on, or succeeds again.
Reach(u, ok) ==
    /\ update = NoUpdate
    /\ reachable[u] # ok
    /\ reachable' = [reachable EXCEPT ![u] = ok]
    /\ UNCHANGED <<HOUSES, apps, archive, blacklist, user_data, chat_data, kbShown, now,
                   ticks, writable, noticed, update, outbox, suspended>>
    /\ UNCHANGED normVars

\* The approve branch of handle_admin_callback reaches the await of
\* send_simple_invite: the handler is suspended with apps[target_id] in its
\* memory, and other handlers run.
ApproveBegin(admin, target_id) ==
    /\ update = NoUpdate
    /\ suspended = NoFrame
    /\ is_admin(admin)
    /\ Has(apps, target_id)
    /\ apps' = ApproveMark(Ctx(admin), target_id).apps
    /\ suspended' = [action |-> "approve", admin |-> admin, target_id |-> target_id,
                     rec |-> Approved(Ctx(admin), target_id)]
    /\ UNCHANGED <<HOUSES, archive, blacklist, user_data, chat_data, kbShown, now, ticks,
                   writable, reachable, noticed, update, outbox>>
    /\ UNCHANGED normVars

\* The send returns and the handler runs to its end on the stores as they
\* are now.
ApproveResume ==
    /\ update = NoUpdate
    /\ suspended # NoFrame
    /\ Store(suspended.admin,
             ApproveRest(Ctx(suspended.admin), suspended.admin, suspended.target_id,
                         suspended.rec),
             [kind |-> "callback", from |-> suspended.admin,
              data |-> <<"approve", suspended.target_id>>],
             RecordOf(suspended.target_id))
    /\ suspended' = NoFrame

\* The normalizer harness stays idle while the bot runs.
NormIdle ==
    /\ inText = <<>>
    /\ sepText = <<>>
    /\ normDone = FALSE
    /\ normOut = None
    /\ sepOut = None

Init == BotInit /\ NormIdle

(***************************************************************************)
(* The conversation: one applicant who tries every input of the flow, and  *)
(* an admin who blocks and unblocks the applicant.                         *)
(***************************************************************************)
Applicant == 100001

Neighbour == 100002

Admin == ADMINS[1]

Labels == {TXT_STATUS, TXT_CONTACT, TXT_CANCEL, TXT_APPLY, TXT_HELP, <<"kw", "?">>}

\* The answers a user gives to the prompt of a step: one the step accepts and
\* others it refuses.
AnswersAt(step) ==
    IF step = "select_house" THEN {<<"1">>, <<"2">>, <<"7">>, OTHER_TEXT}
    ELSE IF step = "flat" THEN {FLAT_OK, FLAT_LONG}
    ELSE IF step = "cad" THEN {CAD_OK, OTHER_TEXT}
    ELSE IF step = "contact" THEN {OTHER_TEXT, <<"1">>}
    ELSE {OTHER_TEXT}

TextsOf(u) == Labels \cup AnswersAt(StepOf(Ctx(u)))

UserButtons == {<<"cad_ok">>, <<"cad_no">>}

Targets == {StrOf(u) : u \in Users}

BlockButtons == {<<a, StrOf(Applicant)>> : a \in {"block", "unblock"}}

\* The data of the buttons on the keyboards the bot sends to admins.
AdminButtons ==
    {<<a, t>> : a \in {"approve", "reject", "reply", "block", "unblock", "reject_custom",
                       "reply_custom", "cancel", "cancel_reply", "archive_msg",
                       "archive_detail"},
                t \in Targets}
    \cup {<<a, t, 1>> : a \in {"reject_template", "reply_template"}, t \in Targets}
    \cup {<<a>> : a \in {"archive_recent", "archive_approved", "archive_rejected",
                         "archive_search", "archive_back", "bl_add", "bl_remove",
                         "bl_refresh"}}

Next ==
    \/ \E arg \in StartArgs : Start(Applicant, arg)
    \/ \E text \in TextsOf(Applicant) : TextMessage(Applicant, text)
    \/ \E caption \in Captions : File(Applicant, caption)
    \/ \E data \in UserButtons, pressed \in {"last", "old"} :
           PressUserButton(Applicant, data, pressed)
    \/ \E data \in AdminButtons : PressAdminButton(Applicant, data)
    \/ \E data \in BlockButtons : PressAdminButton(Admin, data)
    \/ Finish

Spec == Init /\ [][Next]_vars

(***************************************************************************)
(* The moderation: users who follow the prompts, and an admin who decides  *)
(* on their applications.                                                  *)
(***************************************************************************)
GuidedArgs == {"house1", "house2"}

GuidedAnswersAt(step) ==
    IF step = "flat" THEN {FLAT_OK} ELSE IF step = "cad" THEN {CAD_OK} ELSE {}

ModerationButtons ==
    {<<a, t>> : a \in {"approve", "reject", "block", "unblock"}, t \in Targets}
    \cup {<<"reject_template", t, 1>> : t \in Targets}
    \cup {<<"reject_custom", StrOf(Applicant)>>, <<"cancel", StrOf(Applicant)>>,
          <<"bl_add">>, <<"bl_remove">>}

\* The texts of an admin: menu labels, and the answer to an open prompt.
AdminTextsAt(cd) ==
    IF DHas(cd, "rejecting_app") THEN {OTHER_TEXT}
    ELSE IF DHas(cd, "blacklist_action") THEN {StrOf(Applicant), <<"7">>, <<"0">>}
    ELSE {TXT_LIST, TXT_BLACKLIST}

NextMod ==
    \/ \E arg \in GuidedArgs : Start(Applicant, arg)
    \/ \E text \in GuidedAnswersAt(StepOf(Ctx(Applicant))) : TextMessage(Applicant, text)
    \/ File(Applicant, <<>>)
    \/ \E data \in UserButtons : PressUserButton(Applicant, data, "last")
    \/ \E data \in ModerationButtons : PressAdminButton(Admin, data)
    \/ \E text \in AdminTextsAt(chat_data[Admin]) : TextMessage(Admin, text)
    \/ Start(Admin, "")
    \/ Finish

SpecMod == Init /\ [][NextMod]_vars

(***************************************************************************)
(* The passing of time: an applicant who follows the prompts, days that    *)
(* pass, the daily job, a neighbour who sends /start and an admin who      *)
(* decides and opens the archive.                                          *)
(***************************************************************************)
SweepButtons == {<<"approve", StrOf(Applicant)>>, <<"reject_template", StrOf(Applicant), 1>>}

NextSweep ==
    \/ \E arg \in GuidedArgs : Start(Applicant, arg)
    \/ \E text \in GuidedAnswersAt(StepOf(Ctx(Applicant))) : TextMessage(Applicant, text)
    \/ File(Applicant, <<>>)
    \/ PressUserButton(Applicant, <<"cad_ok">>, "last")
    \/ Start(Neighbour, "")
    \/ \E d \in TickDays : Tick(d)
    \/ ScheduledCleanup
    \/ \E data \in SweepButtons : PressAdminButton(Admin, data)
    \/ TextMessage(Admin, TXT_ARCHIVE)
    \/ Finish

SpecSweep == Init /\ [][NextSweep]_vars

(***************************************************************************)
(* A store that fails: an applicant who follows the prompts while the      *)
(* writes to the file of the applications fail or succeed.                 *)
(***************************************************************************)
NextFault ==
    \/ \E arg \in GuidedArgs : Start(Applicant, arg)
    \/ \E text \in GuidedAnswersAt(StepOf(Ctx(Applicant))) : TextMessage(Applicant, text)
    \/ File(Applicant, <<>>)
    \/ \E data \in UserButtons : PressUserButton(Applicant, data, "last")
    \/ \E ok \in BOOLEAN : Fault("apps", ok)
    \/ Finish

SpecFault == Init /\ [][NextFault]_vars

(***************************************************************************)
(* Moderation under faults: an applicant who follows the prompts and may   *)
(* stop the bot, an admin who decides, and files whose writes fail or      *)
(* succeed.  A user who has stopped the bot sends it nothing.              *)
(***************************************************************************)
DecisionButtons ==
    {<<a, StrOf(Applicant)>> : a \in {"approve", "block", "unblock", "reject_custom",
                                      "reply", "reply_custom", "cancel_reply"}}
    \cup {<<"reject_template", StrOf(Applicant), 1>>,
          <<"reply_template", StrOf(Applicant), 2>>}

\* The admin is asked for a text: the reason of a rejection or a reply.
AdminPrompted == DOMAIN chat_data[Admin] \cap {"rejecting_app", "replying_to_custom"} # {}

Files == {"apps", "archive", "blacklist"}

NextModFault ==
    \/ reachable[Applicant] /\ \E arg \in GuidedArgs : Start(Applicant, arg)
    \/ /\ reachable[Applicant]
       /\ \E text \in GuidedAnswersAt(StepOf(Ctx(Applicant))) : TextMessage(Applicant, text)
    \/ reachable[Applicant] /\ PressUserButton(Applicant, <<"cad_ok">>, "last")
    \/ \E ok \in BOOLEAN : Reach(Applicant, ok)
    \/ \E file \in Files, ok \in BOOLEAN : Fault(file, ok)
    \/ \E data \in DecisionButtons : PressAdminButton(Admin, data)
    \/ AdminPrompted /\ TextMessage(Admin, OTHER_TEXT)
    \/ Finish

SpecModFault == Init /\ [][NextModFault]_vars

(***************************************************************************)
(* Buttons that outlive the record: an applicant who follows the prompts,  *)
(* and an admin who presses the buttons of the keyboards sent earlier,     *)
(* whether or not the application is still in the active store.            *)
(***************************************************************************)
StaleButtons ==
    {<<a, StrOf(Applicant)>> : a \in {"approve", "reject", "reply", "reject_custom",
                                      "reply_custom"}}
    \cup {<<"reject_template", StrOf(Applicant), 1>>,
          <<"reply_template", StrOf(Applicant), 2>>}

NextStale ==
    \/ \E arg \in GuidedArgs : Start(Applicant, arg)
    \/ \E text \in GuidedAnswersAt(StepOf(Ctx(Applicant))) : TextMessage(Applicant, text)
    \/ PressUserButton(Applicant, <<"cad_ok">>, "last")
    \/ \E data \in StaleButtons : PressAdminButton(Admin, data)
    \/ AdminPrompted /\ TextMessage(Admin, OTHER_TEXT)
    \/ Finish

SpecStale == Init /\ [][NextStale]_vars

(***************************************************************************)
(* An admin on the blocklist: an applicant who follows the prompts, and an *)
(* admin who adds IDs to the blocklist, the admin's own among them, and    *)
(* goes on using the bot.                                                  *)
(***************************************************************************)
SelfButtons ==
    {<<"bl_add">>, <<"bl_remove">>, <<"approve", StrOf(Applicant)>>,
     <<"block", StrOf(Applicant)>>}

SelfTextsAt(cd) ==
    IF DHas(cd, "blacklist_action") THEN {StrOf(Admin), StrOf(Applicant)}
    ELSE {TXT_LIST, TXT_BLACKLIST, TXT_HELP, TXT_STATUS, OTHER_TEXT}

NextSelf ==
    \/ \E arg \in GuidedArgs : Start(Applicant, arg)
    \/ \E text \in GuidedAnswersAt(StepOf(Ctx(Applicant))) : TextMessage(Applicant, text)
    \/ PressUserButton(Applicant, <<"cad_ok">>, "last")
    \/ \E arg \in StartArgs : Start(Admin, arg)
    \/ \E text \in SelfTextsAt(chat_data[Admin]) : TextMessage(Admin, text)
    \/ File(Admin, <<>>)
    \/ \E data \in SelfButtons : PressAdminButton(Admin, data)
    \/ Finish

SpecSelf == Init /\ [][NextSelf]_vars

(***************************************************************************)
(* Handlers that interleave: an applicant who follows the prompts while    *)
(* the approve handler of an admin is suspended at its send.               *)
(***************************************************************************)
NextRace ==
    \/ \E arg \in GuidedArgs : Start(Applicant, arg)
    \/ \E text \in GuidedAnswersAt(StepOf(Ctx(Applicant))) : TextMessage(Applicant, text)
    \/ File(Applicant, <<>>)
    \/ PressUserButton(Applicant, <<"cad_ok">>, "last")
    \/ \E t \in Targets : ApproveBegin(Admin, t)
    \/ ApproveResume
    \/ Finish

SpecRace == Init /\ [][NextRace]_vars

(***************************************************************************)
(* Harness for the pure function: inputs from a bounded set, separators    *)
(* inserted one at a time, then the function applied to both texts.        *)
(***************************************************************************)
MaxDigits == 21

MaxInserted == 2

DigitPatterns == {0, 1, 3}

\* The i-th digit of the input of pattern p: p = 0 is all "sup2", otherwise
\* the digits p*i mod 10, so that neighbouring positions differ.
DigitAt(p, i) == IF p = 0 THEN "sup2" ELSE DigitChar[((p * i) % 10) + 1]

DigitString(n, p) == [i \in 1..n |-> DigitAt(p, i)]

InsertAt(text, pos, c) == SubSeq(text, 1, pos) \o <<c>> \o SubSeq(text, pos + 1, Len(text))

NormInit ==
    /\ BotInit
    /\ HOUSES = <<House1>>
    /\ \E n \in 0..MaxDigits, p \in DigitPatterns : inText = DigitString(n, p)
    /\ sepText = inText
    /\ normDone = FALSE
    /\ normOut = None
    /\ sepOut = None

InsertSeparator ==
    /\ ~normDone
    /\ Len(sepText) < Len(inText) + MaxInserted
    /\ \E pos \in 0..Len(sepText), c \in Separators : sepText' = InsertAt(sepText, pos, c)
    /\ UNCHANGED <<inText, normDone, normOut, sepOut>>
    /\ UNCHANGED botVars

Normalize ==
    /\ ~normDone
    /\ normDone' = TRUE
    /\ normOut' = normalize_cadastre(inText)
    /\ sepOut' = normalize_cadastre(sepText)
    /\ UNCHANGED <<inText, sepText>>
    /\ UNCHANGED botVars

NormNext == InsertSeparator \/ Normalize

SpecNorm == NormInit /\ [][NormNext]_vars

(***************************************************************************)
(* C1, C2                                                                  *)
(***************************************************************************)
\* The exact form DD:DD:D...D:DDD built from the digit sequence ds.
HasCadastreForm(out, ds) ==
    LET n == Len(ds)
    IN  /\ Len(out) = n + 3
        /\ out[3] = ":" /\ out[6] = ":" /\ out[n] = ":"
        /\ \A i \in 1..2 : out[i] = ds[i]
        /\ \A i \in 3..4 : out[i + 1] = ds[i]
        /\ \A i \in 5..(n - 3) : out[i + 2] = ds[i]
        /\ \A i \in (n - 2)..n : out[i + 3] = ds[i]
        /\ \A i \in 1..Len(out) : i \notin {3, 6, n} => IsDigit(out[i])

\* C1 as stated: every input with at least 12 digit characters normalizes to
\* the form DD:DD:D...D:DDD, every input with fewer yields None.
C1_Original ==
    normDone =>
        LET ds == DigitsOf(sepText)
        IN  IF Len(ds) >= 12
            THEN sepOut # None /\ HasCadastreForm(sepOut[1], ds)
            ELSE sepOut = None

\* C1 amended: an input with 12 to 20 digit characters normalizes to the form
\* DD:DD:D...D:DDD (first 2 digits, next 2, all but the last 3, last 3); an
\* input with fewer than 12 or more than 20 digit characters yields None.
C1_Normalize ==
    normDone =>
        LET ds == DigitsOf(sepText)
        IN  IF Len(ds) >= 12 /\ Len(ds) <= 20
            THEN sepOut # None /\ HasCadastreForm(sepOut[1], ds)
            ELSE sepOut = None

C1_Witness ==
    /\ normDone
    /\ Len(DigitsOf(sepText)) = 13
    /\ Len(sepText) = 15
    /\ sepOut # None

\* C2: inserting non-digit characters anywhere in an input does not change
\* the result of normalize_cadastre.
C2_SeparatorsIgnored == normDone => sepOut = normOut

C2_Witness ==
    /\ normDone
    /\ Len(sepText) = Len(inText) + 2
    /\ normOut # None
    /\ sepText[1] \in Separators


(***************************************************************************)
(* What the claims speak of                                                *)
(***************************************************************************)
FromUser(upd, u) == upd.kind \in {"start", "text", "file", "callback"} /\ upd.from = u

Pressed(upd, data) == upd.kind = "callback" /\ upd.data = data

HasKind(out, kind) == \E i \in DOMAIN out : out[i].kind = kind

NoticesTo(out, u) == Cardinality({i \in DOMAIN out : out[i].to = u})

BlockNotice(u) == [to |-> u, kind |-> "block_notice", edit |-> FALSE, body |-> <<>>]

Denial(u) == [to |-> u, kind |-> "denied", edit |-> TRUE, body |-> <<>>]

IsPending(obj, key) == Has(obj, key) /\ DGet(Get(obj, key), "status", "") = STATUS_pending

\* The status of the application of a user: of the record in the application
\* store, or else of the record in the archive.
StatusIn(active, archived, key) ==
    IF Has(active, key) THEN DGet(Get(active, key), "status", "")
    ELSE IF Has(archived, key) THEN DGet(Get(archived, key), "status", "")
    ELSE "none"

NoDuplicateKeys(obj) == \A i, j \in DOMAIN obj : obj[i][1] = obj[j][1] => i = j

\* Every record of the second store is a record of the first.
NoNewRecord(before, after) == \A i \in DOMAIN after : \E j \in DOMAIN before : before[j] = after[i]

\* The update just handled was a submission that succeeded: the confirmation
\* button or an upload, answered with the confirmation of the submission.
Submitted(upd, out, u) ==
    /\ upd.kind \in {"file", "callback"}
    /\ upd.from = u
    /\ upd.kind = "callback" => upd.data = <<"cad_ok">>
    /\ HasKind(out, "submitted")

(***************************************************************************)
(* C3                                                                      *)
(***************************************************************************)
Populated(rec, u) ==
    /\ DGet(rec, "status", "") = STATUS_pending
    /\ DGet(rec, "flat", <<>>) # <<>>
    /\ DGet(rec, "cadastre", <<>>) # <<>> \/ DGet(rec, "file", <<>>) # <<>>
    /\ DGet(rec, "user_id", 0) = u
    /\ DGet(rec, "name", "") # ""
    /\ DHas(rec, "created_at")

\* C3: after every successful submission (confirmation button, or upload in
\* the cadastre step) the record stored for the user is pending with the
\* apartment, the cadastral number or the file, the identity and the
\* timestamp populated, and the session of the user is empty.
C3_Original ==
    \A u \in Users :
        Submitted(update, outbox, u) =>
            /\ Has(apps, StrOf(u))
            /\ Populated(Get(apps, StrOf(u)), u)
            /\ user_data[u] = EmptyDict

(***************************************************************************)
(* C4                                                                      *)
(***************************************************************************)
\* The admin has supplied the reason of the rejection of t: a canned reason,
\* or the text awaited after reject_custom.
ReasonGiven(t) ==
    \/ Pressed(update', <<"reject_template", t, 1>>) /\ is_admin(update'.from)
    \/ /\ update'.kind = "text"
       /\ is_admin(update'.from)
       /\ DGet(chat_data[update'.from], "rejecting_app", <<>>) = t

ApprovePressed(t) == Pressed(update', <<"approve", t>>) /\ is_admin(update'.from)

Decided == {STATUS_approved, STATUS_rejected}

\* C4: approve and reject move the status of a pending application away
\* from pending, to approved and to rejected; a decided application keeps its
\* status until its applicant submits a new one; approve pressed again on an
\* approved application changes no store.
C4_Decisions ==
    [][\A t \in Targets :
        /\ (ApprovePressed(t) /\ IsPending(apps, t))
               => StatusIn(apps', archive', t) = STATUS_approved
        /\ (ReasonGiven(t) /\ IsPending(apps, t))
               => StatusIn(apps', archive', t) = STATUS_rejected
        /\ (StatusIn(apps, archive, t) \in Decided
                /\ ~Submitted(update', outbox', IntOf(t)))
               => StatusIn(apps', archive', t) = StatusIn(apps, archive, t)
        /\ (ApprovePressed(t) /\ StatusIn(apps, archive, t) = STATUS_approved)
               => UNCHANGED <<apps, archive, blacklist>>]_vars

\* An admin has pressed approve on an application that was approved before.
C4_Witness ==
    /\ \E t \in Targets : Pressed(update, <<"approve", t>>)
                          /\ StatusIn(apps, archive, t) = STATUS_approved
                          /\ outbox = <<>>

(***************************************************************************)
(* C5                                                                      *)
(***************************************************************************)
\* The admin has invoked the block of t: by the block button, or by the ID
\* sent after bl_add.
BlockInvoked(t) ==
    \/ Pressed(update', <<"block", t>>) /\ is_admin(update'.from)
    \/ /\ update'.kind = "text"
       /\ is_admin(update'.from)
       /\ update'.data = t
       /\ DGet(chat_data[update'.from], "blacklist_action", "") = "add"
       /\ ~DHas(chat_data[update'.from], "rejecting_app")
       /\ ~DHas(chat_data[update'.from], "replying_to_custom")

RejectedAsBlocked(active, archived, t) ==
    /\ ~Has(active, t)
    /\ Has(archived, t)
    /\ DGet(Get(archived, t), "status", "") = STATUS_rejected
    /\ DGet(Get(archived, t), "reject_reason", <<>>) # <<>>
    /\ DGet(Get(archived, t), "reject_reason", <<>>) = REASON_blocked

\* C5: blocking a user who has a pending application, by the button or by
\* the ID, leaves the application rejected with the non-empty reason of the
\* block and the user on the blacklist.
C5_Original ==
    [][\A t \in Targets :
        (BlockInvoked(t) /\ IsPending(apps, t))
            => /\ RejectedAsBlocked(apps', archive', t)
               /\ InList(IntOf(t), blacklist')]_vars

(***************************************************************************)
(* C6                                                                      *)
(***************************************************************************)
\* C6: approve on a pending application sets its status to approved and
\* sends exactly one message to its applicant.
C6_ApproveNotice ==
    [][\A t \in Targets :
        (ApprovePressed(t) /\ IsPending(apps, t))
            => /\ StatusIn(apps', archive', t) = STATUS_approved
               /\ NoticesTo(outbox', IntOf(t)) = 1]_vars

\* An admin has approved the application of the applicant, who is sent the link.
C6_Witness ==
    /\ Pressed(update, <<"approve", StrOf(Applicant)>>)
    /\ StatusIn(apps, archive, StrOf(Applicant)) = STATUS_approved
    /\ HasKind(outbox, "approved_link")

(***************************************************************************)
(* C7                                                                      *)
(***************************************************************************)
\* C7: /start of a blocked user who is no admin is answered by the notice
\* of the block alone, sets no step and creates no record.
C7_BlockedStart ==
    [][\A u \in Users :
        (update'.kind = "start" /\ update'.from = u /\ is_blocked(u, blacklist))
            => /\ outbox' = <<BlockNotice(u)>>
               /\ ~DHas(user_data'[u], "step")
               /\ NoNewRecord(apps, apps')]_vars

\* A blocked user has sent /start and has been answered.
C7_Witness ==
    /\ update.kind = "start"
    /\ is_blocked(update.from, blacklist)
    /\ ~is_admin(update.from)
    /\ outbox # <<>>

(***************************************************************************)
(* C8                                                                      *)
(***************************************************************************)
\* C8: every event of a blocked user who is no admin (text, file, /start,
\* button of the keyboards sent to users) is answered by at most the notice
\* of the block, creates no record and sends nothing to the admins.
C8_Original ==
    [][\A u \in Users :
        (/\ FromUser(update', u)
         /\ update'.kind = "callback" => update'.data \in UserButtons
         /\ is_blocked(u, blacklist))
            => /\ outbox' \in {<<>>, <<BlockNotice(u)>>}
               /\ NoNewRecord(apps, apps')]_vars

(***************************************************************************)
(* C9                                                                      *)
(***************************************************************************)
\* C9: a callback of the admin keyboards sent by a user who is no admin is
\* answered by the denial, and changes no store and no chat_data.
C9_Original ==
    [][\A u \in Users :
        (update'.kind = "callback" /\ update'.from = u /\ update'.data \in AdminButtons)
            => /\ outbox' = <<Denial(u)>>
               /\ UNCHANGED <<apps, archive, blacklist, chat_data>>]_vars

(***************************************************************************)
(* C10                                                                     *)
(***************************************************************************)
\* The record a submission stores, from the session the update found.
SubmittedRecord(u) ==
    IF update'.kind = "file"
    THEN DPut(NewRecord(u, DGet(user_data[u], "house_id", ""),
                        DGet(user_data[u], "flat", <<>>), DGet(user_data[u], "cad", <<>>)),
              "file", FilePath(u))
    ELSE NewRecord(u, DGet(user_data[u], "house_id", ""), DGet(user_data[u], "flat", <<>>),
                   DGet(user_data[u], "cad", <<>>))

\* C10: the application store holds at most one record per user ID, and a
\* new submission leaves under the ID of the user exactly the new record.
C10_OneRecord ==
    [][/\ NoDuplicateKeys(apps')
       /\ \A u \in Users :
            Submitted(update', outbox', u)
                => /\ Has(apps', StrOf(u))
                   /\ Get(apps', StrOf(u)) = SubmittedRecord(u)]_vars

\* A user who had an uploaded file in the store has submitted again by the
\* confirmation button.
C10_Witness ==
    /\ Submitted(update, outbox, Applicant)
    /\ update.kind = "callback"
    /\ DHas(update.prior, "file")
    /\ Has(apps, StrOf(Applicant))
    /\ ~DHas(Get(apps, StrOf(Applicant)), "file")

(***************************************************************************)
(* C11                                                                     *)
(***************************************************************************)
ReasonIn(active, archived, key) ==
    IF Has(active, key) THEN DGet(Get(active, key), "reject_reason", <<>>)
    ELSE IF Has(archived, key) THEN DGet(Get(archived, key), "reject_reason", <<>>)
    ELSE <<>>

Stored(active, archived, key) == Has(active, key) \/ Has(archived, key)

\* The update handled is a moderation action: a button or a text of an admin.
ByModeration(upd) == upd.kind \in {"callback", "text"} /\ is_admin(upd.from)

\* C11: the status and the reject_reason of a stored record change only by
\* a moderation action of an admin (a new submission creates a new record);
\* the session of a user changes only by an update of that user.
C11_Original ==
    [][/\ \A t \in Targets :
            (/\ Stored(apps, archive, t) /\ Stored(apps', archive', t)
             /\ ~ByModeration(update')
             /\ ~Submitted(update', outbox', IntOf(t)))
                => /\ StatusIn(apps', archive', t) = StatusIn(apps, archive, t)
                   /\ ReasonIn(apps', archive', t) = ReasonIn(apps, archive, t)
       /\ \A u \in Users :
            user_data'[u] # user_data[u] => FromUser(update', u)]_vars

(***************************************************************************)
(* C12                                                                     *)
(***************************************************************************)
SessionStep(u) == DGet(user_data[u], "step", NoStep)

\* The transitions of the conversation of user u, told by the update and the
\* session it finds; each is given where its handler runs to its end (the
\* session holds the fields the handler reads, a house is configured).
StartsEntry(u) ==
    /\ \/ update'.kind = "start"
       \/ update'.kind = "text" /\ update'.data \in {TXT_APPLY, TXT_APPLY_NEW}
    /\ Len(HOUSES) > 0

AnswersPrompt(u) ==
    /\ update'.kind = "text"
    /\ update'.data \notin Labels
    /\ \/ SessionStep(u) = "select_house" /\ update'.data \in {<<"1">>, <<"2">>}
          /\ IntOf(update'.data) <= Len(HOUSES)
       \/ SessionStep(u) = "flat" /\ validate_flat_number(update'.data)
       \/ SessionStep(u) = "cad" /\ normalize_cadastre(update'.data) # None
          /\ DHas(user_data[u], "flat")

Retries(u) == Pressed(update', <<"cad_no">>) /\ DHas(user_data[u], "flat")

Confirms(u) ==
    /\ Pressed(update', <<"cad_ok">>)
    /\ {"house_id", "flat", "cad"} \subseteq DOMAIN user_data[u]

Uploads(u) == update'.kind = "file" /\ SessionStep(u) = "cad"

Advice(u) == IF should_show_advice(u) THEN 1 ELSE 0

OnePerAdmin(out) == \A i \in DOMAIN ADMINS : NoticesTo(out, ADMINS[i]) = 1

Initiates(u) == FromUser(update', u) /\ ~is_blocked(u, blacklist)

WrittenMeanwhile ==
    /\ suspended # NoFrame
    /\ Has(apps, suspended.target_id)
    /\ Get(apps, suspended.target_id) # suspended.rec

C14_Original ==
    update.kind \in {"start", "text", "file", "callback"} => ~update.raised

(***************************************************************************)
(* C15                                                                     *)
(***************************************************************************)
\* User u, not blocked, answers the prompt of the cadastral number with a
\* text that normalize_cadastre accepts.
EntersCadastre(u) ==
    /\ Initiates(u)
    /\ update'.kind = "text"
    /\ update'.data \notin Labels
    /\ SessionStep(u) = "cad"
    /\ DHas(user_data[u], "flat")
    /\ normalize_cadastre(update'.data) # None

\* C15: a text that normalizes in the step of the cadastral number leaves the
\* session in a step other than that one, with the normalized value stored
\* and shown with the confirmation keyboard, and writes no record; while the
\* session holds the stored value, only the confirm button writes a record.
C15_Original ==
    [][\A u \in Users :
        /\ EntersCadastre(u)
               => /\ DGet(user_data'[u], "step", NoStep) # "cad"
                  /\ DGet(user_data'[u], "cad", <<>>) = normalize_cadastre(update'.data)[1]
                  /\ DGet(user_data'[u], "last_app_message_id", 0) = WITH_KEYBOARD
                  /\ apps' = apps
        /\ (Initiates(u) /\ DHas(user_data[u], "cad") /\ ~Pressed(update', <<"cad_ok">>))
               => NoNewRecord(apps, apps')]_vars

(***************************************************************************)
(* C16                                                                     *)
(***************************************************************************)
\* User u, not blocked, answers the prompt of the apartment or of the
\* cadastral number with a text the validation of the step refuses.
FailsValidation(u) ==
    /\ Initiates(u)
    /\ ~is_admin(u)
    /\ update'.kind = "text"
    /\ update'.data \notin Labels
    /\ \/ SessionStep(u) = "flat" /\ ~validate_flat_number(update'.data)
       \/ SessionStep(u) = "cad" /\ normalize_cadastre(update'.data) = None

Reprompt(u, kind) == [to |-> u, kind |-> kind, edit |-> FALSE, body |-> <<>>]

\* C16: a text that validate_flat_number refuses in the step of the
\* apartment, or that does not normalize in the step of the cadastral number,
\* is answered by the prompt alone: the step and every other field of the
\* session stay as they were and no store is written.
C16_Reprompt ==
    [][\A u \in Users :
        FailsValidation(u)
            => /\ user_data'[u] = user_data[u]
               /\ apps' = apps /\ archive' = archive /\ blacklist' = blacklist
               /\ outbox' = <<Reprompt(u, IF SessionStep(u) = "flat" THEN "flat_invalid"
                                                                      ELSE "cadastre_invalid")>>]_vars

\* The applicant, with house and apartment in the session, has sent a text
\* that is no cadastral number and has been asked again.
C16_Witness ==
    /\ update.kind = "text"
    /\ update.from = Applicant
    /\ normalize_cadastre(update.data) = None
    /\ outbox = <<Reprompt(Applicant, "cadastre_invalid")>>
    /\ SessionStep(Applicant) = "cad"
    /\ {"house_id", "flat"} \subseteq DOMAIN user_data[Applicant]

(***************************************************************************)
(* C17                                                                     *)
(***************************************************************************)
NoticesOfKind(out, to, kind) ==
    Cardinality({i \in DOMAIN out : out[i].to = to /\ out[i].kind = kind})

SessionFields == {"step", "house_id", "flat", "cad", "contact_data"}

\* The fields of the conversation the session of u holds, but for the id of
\* the last application message.
Session(ud) == [k \in DOMAIN ud \cap SessionFields |-> ud[k]]

\* C17: the confirm button pressed by a user who is not blocked, on a session
\* that holds house, apartment and cadastral number, writes the record of the
\* user with status pending and sends one notice of the new application to
\* every admin; when the write fails, the stores are unchanged, no admin gets
\* a message and the session keeps its fields.
C17_Confirm ==
    [][\A u \in Users :
        (Initiates(u) /\ Confirms(u))
            => IF writable["apps"]
               THEN /\ IsPending(apps', StrOf(u))
                    /\ Get(apps', StrOf(u)) = SubmittedRecord(u)
                    /\ \A i \in DOMAIN ADMINS :
                           /\ NoticesOfKind(outbox', ADMINS[i], "new_app") = 1
                           /\ NoticesTo(outbox', ADMINS[i]) = 1
               ELSE /\ apps' = apps
                    /\ \A i \in DOMAIN ADMINS : NoticesTo(outbox', ADMINS[i]) = 0
                    /\ Session(user_data'[u]) = Session(user_data[u])
                    /\ HasKind(outbox', "save_error")]_vars

\* The applicant has pressed the confirm button while the file of the
\* applications could not be written: the error is shown, the session keeps
\* the three values and there is no record.
C17_Witness ==
    /\ Pressed(update, <<"cad_ok">>)
    /\ update.from = Applicant
    /\ ~writable["apps"]
    /\ HasKind(outbox, "save_error")
    /\ {"house_id", "flat", "cad"} \subseteq DOMAIN user_data[Applicant]
    /\ ~Has(apps, StrOf(Applicant))

(***************************************************************************)
(* C18                                                                     *)
(***************************************************************************)
\* The session of u awaits the confirmation: it holds house, apartment and
\* the cadastral number the user typed.
AwaitsConfirmation(u) ==
    /\ SessionStep(u) = "cad"
    /\ {"house_id", "flat", "cad"} \subseteq DOMAIN user_data[u]

\* C18: the retry button pressed by a user who is not blocked, on a session
\* that awaits the confirmation, removes the cadastral number from the
\* session, leaves the step of the cadastral number with house and apartment
\* as they were, shows the prompt of the cadastral number in place of the
\* pressed message and writes no store.
C18_Retry ==
    [][\A u \in Users :
        (Initiates(u) /\ Pressed(update', <<"cad_no">>) /\ AwaitsConfirmation(u))
            => /\ Session(user_data'[u]) = Session(DPop(user_data[u], "cad"))
               /\ ~DHas(user_data'[u], "cad")
               /\ outbox' = <<[to |-> u, kind |-> "prompt_cad", edit |-> TRUE, body |-> <<>>]>>
               /\ apps' = apps /\ archive' = archive /\ blacklist' = blacklist]_vars

\* The applicant has pressed the retry button on the confirmation: the
\* session is back at the prompt with house and apartment, without the number.
C18_Witness ==
    /\ Pressed(update, <<"cad_no">>)
    /\ update.from = Applicant
    /\ HasKind(outbox, "prompt_cad")
    /\ SessionStep(Applicant) = "cad"
    /\ {"house_id", "flat"} \subseteq DOMAIN user_data[Applicant]
    /\ ~DHas(user_data[Applicant], "cad")

(***************************************************************************)
(* C19                                                                     *)
(***************************************************************************)
\* The update just handled is /start of user u, who is no admin and is not
\* blocked.
Started(u) ==
    /\ update.kind = "start"
    /\ update.from = u
    /\ ~is_admin(u)
    /\ ~is_blocked(u, blacklist)

\* C19 as stated, where a house is configured: after /start of a user who is
\* not blocked the session holds nothing of the earlier conversation and is in
\* the step of the apartment.
C19_Original ==
    \A u \in Users :
        (Started(u) /\ Len(HOUSES) > 0)
            => /\ DOMAIN user_data[u] \cap {"flat", "cad", "contact_data"} = {}
               /\ SessionStep(u) = "flat"

\* C19, amended: after /start of a user who is not blocked the session holds
\* nothing of the earlier conversation; it is in the step of the apartment,
\* with the house, when the command names a configured house or one house is
\* configured, and in the step of the choice of the house when several houses
\* are configured and the command names none.
C19_Start ==
    \A u \in Users :
        (Started(u) /\ Len(HOUSES) > 0)
            => Session(user_data[u]) =
                   IF update.data # "" /\ update.data \in HouseIds
                   THEN [step |-> "flat", house_id |-> update.data]
                   ELSE IF Len(HOUSES) = 1
                        THEN [step |-> "flat", house_id |-> HOUSES[1].id]
                        ELSE [step |-> "select_house"]

\* The applicant has sent /start on a session that held apartment and
\* cadastral number: the session holds the house and the step of the
\* apartment only.
C19_Witness ==
    /\ Started(Applicant)
    /\ Len(HOUSES) > 0
    /\ {"flat", "cad"} \subseteq DOMAIN update.session
    /\ Session(user_data[Applicant]) = [step |-> "flat", house_id |-> HOUSES[1].id]

(***************************************************************************)
(* C20                                                                     *)
(***************************************************************************)
\* C20: a file sent by a user who is not blocked in the step of the
\* cadastral number writes, with no confirmation asked, the pending record of
\* the user with the path of the file, sends one notice of the new
\* application to every admin and clears the session; a file sent in a step
\* that is neither that one nor the contact writes no store and leaves the
\* session as it was.
C20_Upload ==
    [][\A u \in Users :
        (Initiates(u) /\ update'.kind = "file")
            => /\ SessionStep(u) = "cad"
                   => /\ IsPending(apps', StrOf(u))
                      /\ Get(apps', StrOf(u)) = SubmittedRecord(u)
                      /\ DGet(Get(apps', StrOf(u)), "file", <<>>) = FilePath(u)
                      /\ \A i \in DOMAIN ADMINS :
                             NoticesOfKind(outbox', ADMINS[i], "new_app") = 1
                      /\ ~HasKind(outbox', "confirm_cadastre")
                      /\ user_data'[u] = EmptyDict
               /\ SessionStep(u) \notin {"cad", "contact"}
                   => /\ apps' = apps /\ archive' = archive /\ blacklist' = blacklist
                      /\ user_data'[u] = user_data[u]
                      /\ \A i \in DOMAIN ADMINS : NoticesTo(outbox', ADMINS[i]) = 0]_vars

\* The applicant has sent a file in the step of the cadastral number: the
\* pending record with the file is stored, the admin is notified and the
\* session is empty.
C20_Witness ==
    /\ update.kind = "file"
    /\ update.from = Applicant
    /\ DGet(update.session, "step", NoStep) = "cad"
    /\ IsPending(apps, StrOf(Applicant))
    /\ DGet(Get(apps, StrOf(Applicant)), "file", <<>>) = FilePath(Applicant)
    /\ HasKind(outbox, "new_app")
    /\ user_data[Applicant] = EmptyDict

(***************************************************************************)
(* C21                                                                     *)
(***************************************************************************)
AllWritable == \A f \in Files : writable[f]

ArchivedAs(active, archived, t, status) ==
    /\ ~Has(active, t)
    /\ Has(archived, t)
    /\ DGet(Get(archived, t), "status", "") = status

ButtonOfAdmin(data) == Pressed(update', data) /\ is_admin(update'.from)

\* C21: when bot.send_message to the applicant fails and the files can be
\* written, approve and a given reason of rejection still leave the pending
\* application archived as approved and as rejected, block still puts the
\* user on the blacklist and archives the pending application as rejected,
\* and unblock still takes the user off the blacklist; the applicant gets no
\* message.
C21_BestEffort ==
    [][\A t \in Targets :
        (SendFails(IntOf(t)) /\ AllWritable)
            => /\ (ApprovePressed(t) /\ IsPending(apps, t))
                      => ArchivedAs(apps', archive', t, STATUS_approved)
               /\ (ReasonGiven(t) /\ IsPending(apps, t))
                      => ArchivedAs(apps', archive', t, STATUS_rejected)
               /\ (ButtonOfAdmin(<<"block", t>>) /\ ~InList(IntOf(t), blacklist))
                      => /\ InList(IntOf(t), blacklist')
                         /\ IsPending(apps, t) => RejectedAsBlocked(apps', archive', t)
               /\ (ButtonOfAdmin(<<"unblock", t>>) /\ InList(IntOf(t), blacklist))
                      => ~InList(IntOf(t), blacklist')
               /\ (ApprovePressed(t) \/ ReasonGiven(t) \/ ButtonOfAdmin(<<"block", t>>)
                       \/ ButtonOfAdmin(<<"unblock", t>>))
                      => NoticesTo(outbox', IntOf(t)) = 0]_vars

\* The admin has rejected, with a reason from the keyboard, the application
\* of the applicant, who has stopped the bot: the application is archived as
\* rejected and the applicant has got no message.
C21_Witness ==
    /\ Pressed(update, <<"reject_template", StrOf(Applicant), 1>>)
    /\ SendFails(Applicant)
    /\ AllWritable
    /\ ArchivedAs(apps, archive, StrOf(Applicant), STATUS_rejected)
    /\ NoticesTo(outbox, Applicant) = 0
    /\ HasKind(outbox, "rejection_done")

(***************************************************************************)
(* C22                                                                     *)
(***************************************************************************)
\* The files a moderation action on t, found in the state before it, has to
\* write.
WritesOf(t) ==
    IF (ApprovePressed(t) \/ ReasonGiven(t)) /\ Has(apps, t)
    THEN {"apps", "archive"}
    ELSE IF ButtonOfAdmin(<<"block", t>>) /\ ~InList(IntOf(t), blacklist)
    THEN {"blacklist"} \cup (IF IsPending(apps, t) THEN {"apps", "archive"} ELSE {})
    ELSE IF ButtonOfAdmin(<<"unblock", t>>) /\ InList(IntOf(t), blacklist)
    THEN {"blacklist"}
    ELSE {}

SuccessKinds ==
    {"approve_done", "approve_done_no_link", "rejection_done", "block_done", "unblock_done"}

\* C22: when a write of approve, reject, block or unblock fails, the admin
\* is shown an error of saving and no confirmation of the action.
C22_Original ==
    [][\A t \in Targets :
        (\E f \in WritesOf(t) : ~writable[f])
            => /\ \A k \in SuccessKinds : ~HasKind(outbox', k)
               /\ \E i \in DOMAIN outbox' : outbox'[i].to = update'.from]_vars

(***************************************************************************)
(* C23                                                                     *)
(***************************************************************************)
Unexpired(m) == ~IsExpired(m[2])

GivenReason ==
    IF update'.kind = "callback" THEN REJECT_TEMPLATES[update'.data[3]]
                                 ELSE Strip(update'.data)

StoresUnchanged == apps' = apps /\ archive' = archive /\ blacklist' = blacklist

AdminLabels == {TXT_LIST, TXT_STATS, TXT_EXPORT, TXT_ARCHIVE, TXT_BLACKLIST, TXT_HELP}

\* The admin's text is taken as the reply to t: it follows the button of
\* the own reply, no reason of a rejection is awaited, and it is not the label
\* of a button of the menu (which handle_message would serve as well).
ReplyTyped(t) ==
    /\ update'.kind = "text"
    /\ is_admin(update'.from)
    /\ update'.data \notin AdminLabels
    /\ ~DHas(chat_data[update'.from], "rejecting_app")
    /\ DGet(chat_data[update'.from], "replying_to_custom", <<>>) = t

ReplyPicked(t) ==
    \E k \in DOMAIN REPLY_TEMPLATES : ButtonOfAdmin(<<"reply_template", t, k>>)

ReplyText ==
    IF update'.kind = "callback" THEN REPLY_TEMPLATES[update'.data[3]]
                                 ELSE Strip(update'.data)

UnblockInvoked(t) ==
    \/ ButtonOfAdmin(<<"unblock", t>>)
    \/ /\ update'.kind = "text"
       /\ is_admin(update'.from)
       /\ update'.data = t
       /\ DGet(chat_data[update'.from], "blacklist_action", "") = "remove"
       /\ ~DHas(chat_data[update'.from], "rejecting_app")
       /\ ~DHas(chat_data[update'.from], "replying_to_custom")

\* C26: the unblock of a user on the blacklist, by the button or by the ID,
\* takes the ID off the blacklist and sends the user one notice of it; the
\* unblock of a user who is not on the blacklist leaves the blacklist as it
\* is and sends the user nothing; in both cases the application store and the
\* archive are unchanged.  An event of a user who is not on the blacklist is
\* not answered with the notice of the block.
C26_Unblock ==
    [][/\ \A t \in Targets :
            UnblockInvoked(t)
                => /\ apps' = apps
                   /\ archive' = archive
                   /\ IF InList(IntOf(t), blacklist)
                      THEN /\ ~InList(IntOf(t), blacklist')
                           /\ blacklist' = RemoveFirst(blacklist, IntOf(t))
                           /\ NoticesOfKind(outbox', IntOf(t), "unblocked_notice") = 1
                           /\ NoticesTo(outbox', IntOf(t)) = 1
                      ELSE /\ blacklist' = blacklist
                           /\ NoticesTo(outbox', IntOf(t)) = 0
       /\ \A u \in Users :
            (FromUser(update', u) /\ ~is_blocked(u, blacklist))
                => ~HasKind(outbox', "block_notice")]_vars

\* The admin has unblocked the applicant, whose application the block had
\* rejected: the applicant is off the blacklist and has been told, and the
\* application is in the archive, rejected with the reason of the block.
C26_Witness ==
    /\ Pressed(update, <<"unblock", StrOf(Applicant)>>)
    /\ ~InList(Applicant, blacklist)
    /\ HasKind(outbox, "unblocked_notice")
    /\ RejectedAsBlocked(apps, archive, StrOf(Applicant))

(***************************************************************************)
(* C27                                                                     *)
(***************************************************************************)
\* The chat link of the house of a record; "" when the house is not
\* configured or has no link.
LinkOf(rec) ==
    LET house_id == DGet(rec, "house_id", "")
    IN  IF house_id # "" /\ house_id \in HouseIds THEN HouseOf(house_id).chat_link ELSE ""

Links == {HOUSES[i].chat_link : i \in DOMAIN HOUSES} \ {""}

\* The messages of out to user u that carry a chat link.
LinksTo(out, u) ==
    {out[i].body : i \in {j \in DOMAIN out : out[j].to = u /\ out[j].body # <<>>
                                                 /\ out[j].body[1] \in Links}}

\* C27: approve on a pending application whose applicant can be reached
\* sends the applicant the chat link of the house of the record and no other
\* link; when that house is not configured or has no link no link is sent;
\* in both cases the application is archived as approved.
C27_Link ==
    [][\A t \in Targets :
        (ApprovePressed(t) /\ IsPending(apps, t) /\ ~SendFails(IntOf(t)))
            => /\ LinksTo(outbox', IntOf(t))
                      = IF LinkOf(Get(apps, t)) = "" THEN {} ELSE {<<LinkOf(Get(apps, t))>>}
               /\ StatusIn(apps', archive', t) = STATUS_approved]_vars

\* The admin has approved the application of the applicant for a house
\* without a link, while another house has one: no link has been sent and
\* the application is archived as approved.
C27_Witness ==
    /\ Pressed(update, <<"approve", StrOf(Applicant)>>)
    /\ Links # {}
    /\ ArchivedAs(apps, archive, StrOf(Applicant), STATUS_approved)
    /\ LinkOf(Get(archive, StrOf(Applicant))) = ""
    /\ LinksTo(outbox, Applicant) = {}
    /\ HasKind(outbox, "approved_no_link")

(***************************************************************************)
(* C28                                                                     *)
(***************************************************************************)
\* The update restarts the entry of user u: /start or the apply button.
Restarts(u) ==
    \/ update'.kind = "start"
    \/ update'.kind = "text" /\ Strip(update'.data) \in {TXT_APPLY, TXT_APPLY_NEW}

\* The update is an explicit cancellation: the cancel button, or the text of
\* one character that cancels the message to the admins.
Cancels(u) ==
    /\ update'.kind \in {"text", "file"}
    /\ \/ update'.kind = "text" /\ Strip(update'.data) = TXT_CANCEL
       \/ HasKind(outbox', "contact_cancelled")

\* C28: the cancel button pressed by a user who is not blocked empties the
\* session and writes no store; an update of such a user that empties a
\* session that held the house of an application under way is a successful
\* submission, a cancellation or a restart.
C28_Original ==
    [][\A u \in Users :
        (Initiates(u) /\ ~is_admin(u))
            => /\ (update'.kind = "text" /\ Strip(update'.data) = TXT_CANCEL)
                      => /\ user_data'[u] = EmptyDict
                         /\ StoresUnchanged
               /\ (DHas(user_data[u], "house_id") /\ user_data'[u] = EmptyDict)
                      => \/ Submitted(update', outbox', u)
                         \/ Cancels(u)
                         \/ Restarts(u)]_vars

\* C28, amended: the cancel button pressed by a user who is not blocked
\* empties the session and writes no store; an update of such a user that
\* empties a session that held the house of an application under way is a
\* successful submission, a cancellation, a restart, or the text that is sent
\* to the admins as the user's message.
C28_Cleared ==
    [][\A u \in Users :
        (Initiates(u) /\ ~is_admin(u))
            => /\ (update'.kind = "text" /\ Strip(update'.data) = TXT_CANCEL)
                      => /\ user_data'[u] = EmptyDict
                         /\ StoresUnchanged
               /\ (DHas(user_data[u], "house_id") /\ user_data'[u] = EmptyDict)
                      => \/ Submitted(update', outbox', u)
                         \/ Cancels(u)
                         \/ Restarts(u)
                         \/ HasKind(outbox', "contact_sent")]_vars

\* The applicant has pressed the cancel button on a session that held house,
\* apartment and cadastral number: the session is empty and no application
\* is stored.
C28_Witness ==
    /\ update.kind = "text"
    /\ update.from = Applicant
    /\ update.data = TXT_CANCEL
    /\ {"house_id", "flat", "cad"} \subseteq DOMAIN update.session
    /\ user_data[Applicant] = EmptyDict
    /\ apps = <<>>

\* The statuses the two stores may hold between two handlers.
StatusOf(rec) == DGet(rec, "status", "")

StoresSorted ==
    /\ \A i \in DOMAIN apps : StatusOf(apps[i][2]) = STATUS_pending
    /\ \A i \in DOMAIN archive : StatusOf(archive[i][2]) \in Decided

\* The step writes the archive record of t.
Decides(t) ==
    /\ Has(archive', t)
    /\ ~Has(archive, t) \/ Get(archive', t) # Get(archive, t)

\* C29: whenever no handler is suspended at a send, every record of the
\* active store is pending and every record of the archive is approved or
\* rejected; and a handler that has run to its end and wrote the archive
\* record of an applicant has left no record of that applicant in the active
\* store.
C29_Sorted ==
    /\ [](suspended = NoFrame => StoresSorted)
    /\ [][\A t \in Targets :
            (Decides(t) /\ suspended' = NoFrame)
                => ArchivedAs(apps', archive', t, StatusOf(Get(archive', t)))]_vars

\* An admin has pressed a button that decides the applicant's pending
\* application: the applicant is notified, the active store is empty and
\* the archive holds the decided record.
C29_Witness ==
    /\ suspended = NoFrame
    /\ update.kind = "callback"
    /\ update.from = Admin
    /\ update.data[1] \in {"approve", "reject_template", "block"}
    /\ NoticesTo(outbox, Applicant) > 0
    /\ apps = <<>>
    /\ Has(archive, StrOf(Applicant))
    /\ StatusOf(Get(archive, StrOf(Applicant))) \in Decided

\* The applicant t has an application in the archive and has submitted a
\* newer one since: every button made for the archived application carries
\* the same data as the buttons of the newer one, the user ID alone.
Resubmitted(t) ==
    /\ Has(archive, t)
    /\ Has(apps, t)
    /\ DGet(Get(apps, t), "created_at", 0) > DGet(Get(archive, t), "created_at", 0)

\* The data of the approve and reason buttons create_admin_buttons and
\* create_reject_templates_keyboard made for an application of t.
DecidingData(t) == {<<"approve", t>>} \cup {<<"reject_template", t, n>> : n \in 1..Len(REJECT_TEMPLATES)}

\* C30, as stated: a press of an approve or reason button with the data
\* that was made for an application now in the archive does not decide the
\* application the applicant has submitted since.
C30_Original ==
    [][\A t \in Targets :
        (Resubmitted(t) /\ \E data \in DecidingData(t) : ButtonOfAdmin(data))
            => /\ Has(apps', t)
               /\ Get(apps', t) = Get(apps, t)]_vars

C32_Original ==
    suspended = NoFrame
        => \A u \in Users :
            (~is_admin(u) /\ is_blocked(u, blacklist)) => ~IsPending(apps, StrOf(u))

\* C33, as stated: a run of scheduled_cleanup sends no expiry notice about an
\* application an earlier run has already sent one about.
C33_Original ==
    [][update'.kind = "job" => NoticesAbout(archive') \cap noticed = {}]_vars

\* The keys of chat_data under which an admin's next text is awaited.
InputModes ==
    {"rejecting_app", "replying_to_custom", "blacklist_action", "archive_action",
     "archive_replying_to"}

PendingModes(cd) == DOMAIN cd \cap InputModes

\* C34, as stated: at most one free-text input mode is pending in the chat
\* of an admin.
C34_Original ==
    \A a \in AdminSet : Cardinality(PendingModes(chat_data[a])) <= 1

\* The admin's update is an approve, a reject or a reply button for t, a
\* reason button for t, or the text that is taken as the reason of the
\* rejection of t.
DecidesOrOpens(t) ==
    \/ \E a \in {"approve", "reject", "reply"} : ButtonOfAdmin(<<a, t>>)
    \/ \E n \in 1..Len(REJECT_TEMPLATES) : ButtonOfAdmin(<<"reject_template", t, n>>)
    \/ /\ update'.kind = "text" /\ is_admin(update'.from)
       /\ DGet(chat_data[update'.from], "rejecting_app", <<>>) = t

\* The admin's update is a reply template for t, or the text that is taken as
\* the reply to t.
Replies(t) ==
    \/ \E n \in 1..Len(REPLY_TEMPLATES) : ButtonOfAdmin(<<"reply_template", t, n>>)
    \/ /\ update'.kind = "text" /\ is_admin(update'.from)
       /\ ~DHas(chat_data[update'.from], "rejecting_app")
       /\ DGet(chat_data[update'.from], "replying_to_custom", <<>>) = t

\* C35, as stated: approve, reject, a reason of rejection and a reply, by
\* template or typed, for a user ID with no record in the active store change
\* no store and send nothing to that user; taken where the application of
\* the user has been decided since the keyboards were sent.
C35_Original ==
    [][\A t \in Targets :
        (~Has(apps, t) /\ Has(archive, t) /\ (DecidesOrOpens(t) \/ Replies(t)))
            => /\ StoresUnchanged
               /\ NoticesTo(outbox', IntOf(t)) = 0]_vars

\* C35, amended: the approve, reject and reply buttons and a reason of
\* rejection for a user ID with no record in the active store change no store
\* and send nothing to that user; a reply template or a typed reply for such
\* an ID changes no store.
C35_NoRecord ==
    [][\A t \in Targets :
        ~Has(apps, t)
            => /\ DecidesOrOpens(t) => /\ StoresUnchanged
                                       /\ NoticesTo(outbox', IntOf(t)) = 0
               /\ Replies(t) => StoresUnchanged]_vars

\* The admin has given a reason for the rejection of an application that
\* was decided meanwhile: the archive holds the earlier decision, nothing
\* was sent to the applicant.
C35_Witness ==
    /\ update.kind = "text"
    /\ update.from = Admin
    /\ HasKind(outbox, "rejection_error")
    /\ ~Has(apps, StrOf(Applicant))
    /\ Has(archive, StrOf(Applicant))
    /\ StatusOf(Get(archive, StrOf(Applicant))) = STATUS_approved
    /\ NoticesTo(outbox, Applicant) = 0

\* The update is a text of u that is the help button or holds a help keyword.
AsksHelp(u) ==
    /\ update'.kind = "text"
    /\ update'.from = u
    /\ Strip(update'.data) = TXT_HELP \/ HasHelpKeyword(Strip(update'.data))

\* C36: a text of a user who is not on the blocklist that is the help button
\* or holds a help keyword is answered with the help text, and with the
\* hint of the step in the steps flat, cad and contact, and with nothing
\* else: the session and the three stores are as they were.
C36_HelpOnly ==
    [][\A u \in Users :
        (AsksHelp(u) /\ ~is_admin(u) /\ ~is_blocked(u, blacklist))
            => /\ user_data'[u] = user_data[u]
               /\ StoresUnchanged
               /\ \A i \in DOMAIN outbox' :
                    outbox'[i].to = u /\ outbox'[i].kind \in {"help", "help_step"}
               /\ HasKind(outbox', "help")]_vars

\* The applicant has sent a text with a help keyword in the cadastre step:
\* two messages of help, and the session still awaits the cadastral number
\* with the apartment entered before.
C36_Witness ==
    /\ update.kind = "text"
    /\ update.from = Applicant
    /\ HasHelpKeyword(update.data)
    /\ StepOf(Ctx(Applicant)) = "cad"
    /\ DHas(user_data[Applicant], "flat")
    /\ ~DHas(user_data[Applicant], "cad")
    /\ Len(outbox) = 2
    /\ HasKind(outbox, "help_step")

\* C37, as stated: when the message to the admins of a user who was filling
\* in an application is sent or cancelled, the session still holds the
\* house, the apartment and the cadastral number entered before.
C37_Original ==
    [][\A u \in Users :
        (/\ Initiates(u) /\ ~is_admin(u)
         /\ update'.kind = "text"
         /\ DGet(user_data[u], "step", NoStep) = "contact"
         /\ HasKind(outbox', "contact_sent") \/ HasKind(outbox', "contact_cancelled"))
            => \A k \in {"house_id", "flat", "cad"} :
                DHas(user_data[u], k)
                    => /\ DHas(user_data'[u], k)
                       /\ user_data'[u][k] = user_data[u][k]]_vars

\* What the handler of admin a works on, had a not been on the blocklist.
Unblocked(a) == [Ctx(a) EXCEPT !.blacklist = SelectSeq(@, LAMBDA x : x # a)]

\* The update of a left what the handler leaves in context r.
LeftAs(a, r) ==
    /\ outbox' = r.out
    /\ user_data'[a] = r.ud
    /\ chat_data'[a] = r.cd
    /\ apps' = r.apps
    /\ archive' = r.archive
    /\ blacklist' = blacklist

\* C38: an update of an admin whose ID is on the blocklist is answered with
\* no block notice; /start, a file and a text that does not open or answer
\* the blacklist prompt leave what they leave for the same admin off the
\* blocklist.
C38_AdminNotBlocked ==
    [][\A a \in AdminSet :
        (FromUser(update', a) /\ is_blocked(a, blacklist))
            => /\ ~HasKind(outbox', "block_notice")
               /\ update'.kind = "start" => LeftAs(a, start(Unblocked(a), a, update'.data))
               /\ update'.kind = "file" => LeftAs(a, handle_file(Unblocked(a), a, update'.data))
               /\ (/\ update'.kind = "text"
                   /\ update'.data # TXT_BLACKLIST
                   /\ ~DHas(chat_data[a], "blacklist_action"))
                      => LeftAs(a, handle_message(
                                       admin_text_handler(Unblocked(a), a, update'.data),
                                       a, update'.data))]_vars

\* The admin, whose own ID is on the blocklist, has sent /start and is shown
\* the admin panel.
C38_Witness ==
    /\ update.kind = "start"
    /\ update.from = Admin
    /\ is_blocked(Admin, blacklist)
    /\ Len(outbox) > 0
    /\ ~HasKind(outbox, "block_notice")

NoDuplicates(list) == \A i, j \in DOMAIN list : list[i] = list[j] => i = j

\* The admin's update asks to block an ID the blocklist holds: the block
\* button of t, or the ID typed after the add button of the blacklist.
BlocksAgain(t) ==
    /\ IntParses(t)
    /\ InList(IntOf(t), blacklist)
    /\ \/ ButtonOfAdmin(<<"block", t>>)
       \/ /\ update'.kind = "text" /\ is_admin(update'.from)
          /\ Strip(update'.data) = t
          /\ DGet(chat_data[update'.from], "blacklist_action", "") = "add"
          /\ DOMAIN chat_data[update'.from] \cap {"rejecting_app", "replying_to_custom"} = {}

\* C39: the blocklist never holds an ID twice, and blocking an ID it holds
\* leaves the blocklist, the active store and the archive as they were.
C39_NoDuplicate ==
    /\ [](NoDuplicates(blacklist))
    /\ [][\A t \in Targets : BlocksAgain(t) => StoresUnchanged]_vars

\* An admin has pressed the block button of the applicant, who was on the
\* blocklist already: the admin is told so and the list holds the ID once.
C39_Witness ==
    /\ Pressed(update, <<"block", StrOf(Applicant)>>)
    /\ update.from = Admin
    /\ HasKind(outbox, "already_blocked")
    /\ blacklist = <<Applicant>>

====
